---- MODULE Spec2Model ----
(***************************************************************************)
(* CryptoCrate: the container format, the metadata codec and the           *)
(* encrypt / decrypt / inspect operations, as state machines over a small  *)
(* file system.                                                            *)
(*                                                                         *)
(* Bytes are the integers 0..255.  A String is its UTF-8 byte sequence.    *)
(* A u64 is a natural number (TLC's integers are 32 bits wide, so          *)
(* the values used stay below 2^31).  Option<T> is <<>> (None) or <<v>>    *)
(* (Some(v)).  A Result is a record [tag |-> "Ok", val |-> v] or           *)
(* [tag |-> "Err", kind |-> k]; an abort of the process (a Rust panic) is  *)
(* [tag |-> "Panic"].                                                      *)
(***************************************************************************)
EXTENDS Integers, Sequences, FiniteSets, TLC

VARIABLES
    fs,        \* the file system: path -> file entry
    origin,    \* history: for each path, how the container stored there was made
    last,      \* the last call of an entry point: arguments, result, observations
    pc,        \* where the life of the file stands: plain, crypt, altered, done
    mArg,      \* metadata codec: the argument of the call
    mRes,      \* metadata codec: the result of the call
    mPc        \* metadata codec: which call was made

vars == <<fs, origin, last, pc, mArg, mRes, mPc>>

cryptVars == <<fs, origin, last, pc>>

metaVars == <<mArg, mRes, mPc>>

(***************************************************************************)
(* Results and options                                                     *)
(***************************************************************************)
None == <<>>

Some(v) == <<v>>

Ok(v) == [tag |-> "Ok", val |-> v]

Err(k) == [tag |-> "Err", kind |-> k]

Panic == [tag |-> "Panic"]

IsOk(r) == r.tag = "Ok"

IsErr(r, k) == r.tag = "Err" /\ r.kind = k

\* CrateError::UnsupportedVersion(v)
ErrVersion(v) == [tag |-> "Err", kind |-> "UnsupportedVersion", version |-> v]

(***************************************************************************)
(* format.rs                                                               *)
(***************************************************************************)
MAGIC_BYTES == <<67, 82, 65, 84>>

VERSION == 1

ALGORITHM_AES256_GCM == 1

SALT_LENGTH == 32

NONCE_LENGTH == 12

TAG_LENGTH == 16

(***************************************************************************)
(* Little-endian integers                                                  *)
(***************************************************************************)
RECURSIVE to_le_bytes(_, _)
to_le_bytes(n, width) ==
    IF width = 0 THEN <<>>
    ELSE <<n % 256>> \o to_le_bytes(n \div 256, width - 1)

RECURSIVE from_le_bytes(_)
from_le_bytes(b) ==
    IF b = <<>> THEN 0
    ELSE b[1] + 256 * from_le_bytes(Tail(b))

(***************************************************************************)
(* metadata.rs                                                             *)
(***************************************************************************)
FileMetadata(filename, original_size, modified_time, is_compressed) ==
    [filename |-> filename, original_size |-> original_size,
     modified_time |-> modified_time, is_compressed |-> is_compressed]

\* U+FFFD, the replacement character, in UTF-8.
REPLACEMENT == <<239, 191, 189>>

\* String::from_utf8_lossy on the byte classes the model uses: ASCII, the
\* two-byte sequences (0xC2..0xDF, 0x80..0xBF), and bytes that start or continue
\* nothing valid, each of which becomes U+FFFD.
RECURSIVE from_utf8_lossy_rec(_)
from_utf8_lossy_rec(b) ==
    IF b = <<>> THEN <<>>
    ELSE IF b[1] < 128 THEN <<b[1]>> \o from_utf8_lossy_rec(Tail(b))
    ELSE IF /\ b[1] >= 194 /\ b[1] <= 223 /\ Len(b) >= 2
            /\ b[2] >= 128 /\ b[2] <= 191
         THEN <<b[1], b[2]>> \o from_utf8_lossy_rec(Tail(Tail(b)))
    ELSE REPLACEMENT \o from_utf8_lossy_rec(Tail(b))

from_utf8_lossy(b) ==
    IF \A i \in 1..Len(b) : b[i] < 128 THEN b ELSE from_utf8_lossy_rec(b)

\* An encoder that writes original_size in 4 bytes instead of 8.
to_bytes_u32_size(m) ==
    to_le_bytes(Len(m.filename) % 65536, 2)
    \o m.filename
    \o to_le_bytes(m.original_size, 4)
    \o to_le_bytes(IF m.modified_time = None THEN 0 ELSE m.modified_time[1], 8)
    \o <<IF m.is_compressed THEN 1 ELSE 0>>

\* filename_bytes.len() as u16: the cast keeps the low 16 bits.
to_bytes(m) ==
    to_le_bytes(Len(m.filename) % 65536, 2)
    \o m.filename
    \o to_le_bytes(m.original_size, 8)
    \o to_le_bytes(IF m.modified_time = None THEN 0 ELSE m.modified_time[1], 8)
    \o <<IF m.is_compressed THEN 1 ELSE 0>>

\* bytes[a..a+n] with Rust's bounds check: 0-based offset a, n bytes.
InBounds(bytes, a, n) == a + n <= Len(bytes)

Slice(bytes, a, n) == SubSeq(bytes, a + 1, a + n)

from_bytes(bytes) ==
    IF Len(bytes) < 19 THEN Err("InvalidFormat")
    ELSE
      LET filename_len == from_le_bytes(Slice(bytes, 0, 2))
          offset1 == 2
      IN
      IF offset1 + filename_len > Len(bytes) THEN Err("InvalidFormat")
      ELSE
        LET offset2 == offset1 + filename_len
            offset3 == offset2 + 8
            offset4 == offset3 + 8
        IN
        \* the indexing expressions bytes[offset + k] abort when out of range
        IF ~InBounds(bytes, offset2, 8) THEN Panic
        ELSE IF ~InBounds(bytes, offset3, 8) THEN Panic
        ELSE IF ~InBounds(bytes, offset4, 1) THEN Panic
        ELSE
          LET time_val == from_le_bytes(Slice(bytes, offset3, 8))
          IN Ok(FileMetadata(
                 from_utf8_lossy(Slice(bytes, offset1, filename_len)),
                 from_le_bytes(Slice(bytes, offset2, 8)),
                 IF time_val = 0 THEN None ELSE Some(time_val),
                 bytes[offset4 + 1] # 0))

(***************************************************************************)
(* File contents.  A content is a run of explicit bytes, then `fill` zero  *)
(* bytes (which lets a file be larger than any sequence TLC could          *)
(* hold), then an opaque tail: the output of the AEAD cipher or of the     *)
(* compressor, whose bytes the model does not compute.                     *)
(***************************************************************************)
NoBlob == [t |-> "none"]

Aead(key, nonce, data) == [t |-> "aead", key |-> key, nonce |-> nonce, data |-> data]

Zstd(data) == [t |-> "zstd", data |-> data]

\* n bytes that are the output of no cipher or compressor call
Junk(n) == IF n = 0 THEN NoBlob ELSE [t |-> "junk", len |-> n]

Content(bytes, fill, tail) == [bytes |-> bytes, fill |-> fill, tail |-> tail]

Plain(bytes) == Content(bytes, 0, NoBlob)

EmptyContent == Plain(<<>>)

\* Length in bytes.  The cipher appends its 16-byte tag.  The compressor's
\* output length is approximated: a 9-byte frame, a run of zero bytes in 4
\* bytes, every other byte stored.
RECURSIVE Size(_)
Size(c) ==
    Len(c.bytes) + c.fill
    + CASE c.tail.t = "none" -> 0
        [] c.tail.t = "junk" -> c.tail.len
        [] c.tail.t = "aead" -> Size(c.tail.data) + TAG_LENGTH
        [] c.tail.t = "zstd" ->
             9 + (Size(c.tail.data) - c.tail.data.fill)
               + (IF c.tail.data.fill > 0 THEN 4 ELSE 0)

\* The first n bytes; a byte of the opaque tail reads as 256, equal to no byte
\* a comparison expects.
Take(c, n) ==
    [i \in 1..n |->
        IF i <= Len(c.bytes) THEN c.bytes[i]
        ELSE IF i <= Len(c.bytes) + c.fill THEN 0
        ELSE 256]

\* What follows the first n bytes; a tail cut into is no cipher output any more.
Drop(c, n) ==
    IF n <= Len(c.bytes)
    THEN Content(SubSeq(c.bytes, n + 1, Len(c.bytes)), c.fill, c.tail)
    ELSE IF n <= Len(c.bytes) + c.fill
    THEN Content(<<>>, c.fill - (n - Len(c.bytes)), c.tail)
    ELSE Content(<<>>, 0, Junk(Size(c) - n))

\* Read::read_exact with the file position at pos: n bytes, or an
\* UnexpectedEof I/O error.  The reads of a call follow one another, so each
\* starts where the one before it ended.
read_exact(c, pos, n) ==
    IF pos + n > Size(c) THEN Err("Io") ELSE Ok(Take(Drop(c, pos), n))

\* Read::read_to_end with the file position at pos
read_to_end(c, pos) == Drop(c, pos)

(***************************************************************************)
(* The file system                                                         *)
(***************************************************************************)
Paths == {"p", "c", "o"}

\* Paths are strings, "/" between components.  Position of the last ch in s,
\* 0 when there is none.
rfind(s, ch) ==
    LET I == {i \in 1..Len(s) : SubSeq(s, i, i) = ch} IN
    IF I = {} THEN 0 ELSE CHOOSE i \in I : \A j \in I : j <= i

\* Path::file_name as a string
file_name_str(path) == SubSeq(path, rfind(path, "/") + 1, Len(path))

\* Path::parent
parent(path) ==
    IF rfind(path, "/") = 0 THEN ""
    ELSE IF rfind(path, "/") = 1 THEN "/"
    ELSE SubSeq(path, 1, rfind(path, "/") - 1)

\* Path::join: an absolute right-hand side replaces the left-hand side.
join(dir, name) ==
    IF Len(name) > 0 /\ SubSeq(name, 1, 1) = "/" THEN name
    ELSE IF dir = "" THEN name
    ELSE IF dir = "/" THEN "/" \o name
    ELSE dir \o "/" \o name

\* Path::with_file_name
with_file_name(path, name) == join(parent(path), name)

\* Path::with_extension: the extension is what follows the last dot of the
\* file name, unless that dot is its first character.
with_extension(path, ext) ==
    LET name == file_name_str(path)
        dot == rfind(name, ".")
        stem == IF dot <= 1 THEN name ELSE SubSeq(name, 1, dot - 1)
    IN join(parent(path), stem \o "." \o ext)

\* The characters the model's file names are made of, and their codes.
LETTERS == "abcdefghijklmnopqrstuvwxyz"

chr(b) ==
    IF b >= 97 /\ b <= 122 THEN SubSeq(LETTERS, b - 96, b - 96)
    ELSE IF b = 46 THEN "."
    ELSE IF b = 47 THEN "/"
    ELSE IF b = 95 THEN "_"
    ELSE "?"

ord(ch) == CHOOSE b \in {46, 47, 95} \cup (97..122) : chr(b) = ch

\* str::as_bytes
to_utf8(str) == [i \in 1..Len(str) |-> ord(SubSeq(str, i, i))]

\* The String a sequence of code points spells.
RECURSIVE to_string(_)
to_string(b) == IF b = <<>> THEN "" ELSE chr(b[1]) \o to_string(Tail(b))

\* The path the operating system resolves: a ".." component steps out of the
\* component before it.
RECURSIVE components(_)
components(path) ==
    LET I == {i \in 1..Len(path) : SubSeq(path, i, i) = "/"} IN
    IF I = {} THEN <<path>>
    ELSE LET i == CHOOSE k \in I : \A j \in I : k <= j IN
         <<SubSeq(path, 1, i - 1)>> \o components(SubSeq(path, i + 1, Len(path)))

RECURSIVE resolve_rec(_, _)
resolve_rec(comps, stack) ==
    IF comps = <<>> THEN stack
    ELSE IF comps[1] = ".." /\ stack # <<>> /\ stack[Len(stack)] # ""
    THEN resolve_rec(Tail(comps), SubSeq(stack, 1, Len(stack) - 1))
    ELSE resolve_rec(Tail(comps), Append(stack, comps[1]))

RECURSIVE unsplit(_)
unsplit(comps) ==
    IF Len(comps) = 1 THEN comps[1]
    ELSE comps[1] \o "/" \o unsplit(Tail(comps))

resolve(path) ==
    LET r == resolve_rec(components(path), <<>>) IN
    IF r = <<>> THEN "" ELSE unsplit(r)

\* Path::file_name as UTF-8 bytes
file_name(path) ==
    CASE path = "p" -> <<112>>
      [] path = "c" -> <<99>>
      [] path = "o" -> <<111>>
      [] OTHER -> to_utf8(file_name_str(path))

File(data, mtime) == [exists |-> TRUE, data |-> data, mtime |-> mtime]

NoFile == [exists |-> FALSE, data |-> EmptyContent, mtime |-> None]

\* OpenOptions::new().write(true).create(true).truncate(true).open(path)
open_truncate(fsys, path) ==
    [fsys EXCEPT ![path] = File(EmptyContent, Some(1700000000))]

\* write_all + flush on a file opened with open_truncate
write_all(fsys, path, data) ==
    [fsys EXCEPT ![path] = File(data, Some(1700000000))]

(***************************************************************************)
(* crypto/key_derivation.rs, the cipher, compression/mod.rs                *)
(***************************************************************************)
MAX_DECOMPRESSED_SIZE == 1073741824

\* Argon2id with fixed costs: a deterministic, collision-free function of
\* the password and the salt.
derive_key(password, salt) == Ok([password |-> password, salt |-> salt])

\* cipher.encrypt(nonce, data)
aead_encrypt(key, nonce, data) == Ok(Aead(key, nonce, data))

\* A cipher whose tag does not depend on the key.
aead_decrypt_any_key(key, nonce, ciphertext) ==
    IF /\ ciphertext.bytes = <<>>
       /\ ciphertext.fill = 0
       /\ ciphertext.tail.t = "aead"
       /\ ciphertext.tail.nonce = nonce
    THEN Ok(ciphertext.tail.data)
    ELSE Err("AeadError")

\* cipher.decrypt(nonce, ciphertext): the tag verifies only on the unaltered
\* output of encrypt under the same key and nonce.
aead_decrypt(key, nonce, ciphertext) ==
    IF /\ ciphertext.bytes = <<>>
       /\ ciphertext.fill = 0
       /\ ciphertext.tail.t = "aead"
       /\ ciphertext.tail.key = key
       /\ ciphertext.tail.nonce = nonce
    THEN Ok(ciphertext.tail.data)
    ELSE Err("AeadError")

\* compression::compress(data, None)
compress(data) == Ok(Content(<<>>, 0, Zstd(data)))

\* compression::decompress(data, max_size).  zstd_empty says what the library
\* answers for an input of no bytes, which this code does not determine.
decompress(data, max_size, zstd_empty) ==
    IF data.bytes = <<>> /\ data.fill = 0 /\ data.tail.t = "zstd"
    THEN IF Size(data.tail.data) > max_size THEN Err("Decryption")
         ELSE Ok(data.tail.data)
    ELSE IF Size(data) = 0 /\ zstd_empty THEN Ok(EmptyContent)
    ELSE Err("Decryption")

\* FileMetadata::from_file(path, is_compressed)
from_file(fsys, path, is_compressed) ==
    IF ~fsys[path].exists THEN Err("Io")
    ELSE Ok(FileMetadata(file_name(path), Size(fsys[path].data),
                         fsys[path].mtime, is_compressed))

\* FileHeader::new
FileHeader(salt, nonce, metadata_length) ==
    [version |-> VERSION, algorithm |-> ALGORITHM_AES256_GCM, salt |-> salt,
     nonce |-> nonce, metadata_length |-> metadata_length]

\* The bytes written for a header and a metadata block, in the order written.
header_bytes(header, metadata_bytes) ==
    MAGIC_BYTES \o <<header.version>> \o <<header.algorithm>> \o header.salt
    \o header.nonce \o to_le_bytes(header.metadata_length, 4) \o metadata_bytes

\* What a call returns and leaves behind: its result, the file system, the
\* number of derive_key calls it made, the bytes of the input it parsed.
Outcome(res, fsys, kdf, consumed) ==
    [res |-> res, fs |-> fsys, kdf |-> kdf, consumed |-> consumed]

(***************************************************************************)
(* crypto/encryption.rs                                                    *)
(***************************************************************************)
encrypt_file(fsys, input_path, output_path, password, compress_arg, salt, nonce_bytes) ==
    IF ~fsys[input_path].exists THEN Outcome(Err("FileNotFound"), fsys, 0, 0)
    ELSE
      LET plaintext == fsys[input_path].data
          data_to_encrypt ==
              IF compress_arg /\ Size(plaintext) # 0
              THEN compress(plaintext).val ELSE plaintext
          key == derive_key(password, salt)
          ciphertext == aead_encrypt(key.val, nonce_bytes, data_to_encrypt)
          metadata == from_file(fsys, input_path, compress_arg)
          metadata_bytes == to_bytes(metadata.val)
          header == FileHeader(salt, nonce_bytes, Len(metadata_bytes))
          container ==
              Content(header_bytes(header, metadata_bytes), 0, ciphertext.val)
      IN Outcome(Ok(<<>>),
                 write_all(open_truncate(fsys, output_path), output_path, container),
                 1, Size(plaintext))

NoMeta == FileMetadata(<<>>, 0, None, FALSE)

Parsed(res, consumed, salt, nonce_bytes, metadata, ciphertext) ==
    [res |-> res, consumed |-> consumed, salt |-> salt, nonce_bytes |-> nonce_bytes,
     metadata |-> metadata, ciphertext |-> ciphertext]

Rejected(res, consumed) == Parsed(res, consumed, <<>>, <<>>, NoMeta, EmptyContent)

\* The header checks with the magic bytes read but not compared.
validate_header_any_magic(c) ==
    LET magic == read_exact(c, 0, 4)
        version == read_exact(c, 4, 1)
        algorithm == read_exact(c, 5, 1)
    IN
    IF ~IsOk(magic) THEN Rejected(Err("Io"), 0)
    ELSE IF ~IsOk(version) THEN Rejected(Err("Io"), 4)
    ELSE IF version.val[1] # VERSION THEN Rejected(ErrVersion(version.val[1]), 5)
    ELSE IF ~IsOk(algorithm) THEN Rejected(Err("Io"), 5)
    ELSE IF algorithm.val[1] # ALGORITHM_AES256_GCM
    THEN Rejected(Err("InvalidFormat"), 6)
    ELSE Rejected(Ok(<<>>), 6)

\* The header checks with every version from VERSION upwards let through.
validate_header_newer_version(c) ==
    LET magic == read_exact(c, 0, 4)
        version == read_exact(c, 4, 1)
        algorithm == read_exact(c, 5, 1)
    IN
    IF ~IsOk(magic) THEN Rejected(Err("Io"), 0)
    ELSE IF magic.val # MAGIC_BYTES THEN Rejected(Err("InvalidFormat"), 4)
    ELSE IF ~IsOk(version) THEN Rejected(Err("Io"), 4)
    ELSE IF version.val[1] < VERSION THEN Rejected(ErrVersion(version.val[1]), 5)
    ELSE IF ~IsOk(algorithm) THEN Rejected(Err("Io"), 5)
    ELSE IF algorithm.val[1] # ALGORITHM_AES256_GCM
    THEN Rejected(Err("InvalidFormat"), 6)
    ELSE Rejected(Ok(<<>>), 6)

\* The header checks with the algorithm id compared before the version.
validate_header_algorithm_first(c) ==
    LET magic == read_exact(c, 0, 4)
        version == read_exact(c, 4, 1)
        algorithm == read_exact(c, 5, 1)
    IN
    IF ~IsOk(magic) THEN Rejected(Err("Io"), 0)
    ELSE IF magic.val # MAGIC_BYTES THEN Rejected(Err("InvalidFormat"), 4)
    ELSE IF ~IsOk(version) THEN Rejected(Err("Io"), 4)
    ELSE IF ~IsOk(algorithm) THEN Rejected(Err("Io"), 5)
    ELSE IF algorithm.val[1] # ALGORITHM_AES256_GCM
    THEN Rejected(Err("InvalidFormat"), 6)
    ELSE IF version.val[1] # VERSION THEN Rejected(ErrVersion(version.val[1]), 6)
    ELSE Rejected(Ok(<<>>), 6)

\* decrypt_file from "Read and verify magic bytes" to "Read and verify
\* algorithm"; decrypt_file_streaming repeats the same statements on a
\* BufReader.  The second field of the answer is the number of bytes parsed.
validate_header(c) ==
    LET magic == read_exact(c, 0, 4)
        version == read_exact(c, 4, 1)
        algorithm == read_exact(c, 5, 1)
    IN
    IF ~IsOk(magic) THEN Rejected(Err("Io"), 0)
    ELSE IF magic.val # MAGIC_BYTES THEN Rejected(Err("InvalidFormat"), 4)
    ELSE IF ~IsOk(version) THEN Rejected(Err("Io"), 4)
    ELSE IF version.val[1] # VERSION THEN Rejected(ErrVersion(version.val[1]), 5)
    ELSE IF ~IsOk(algorithm) THEN Rejected(Err("Io"), 5)
    ELSE IF algorithm.val[1] # ALGORITHM_AES256_GCM
    THEN Rejected(Err("InvalidFormat"), 6)
    ELSE Rejected(Ok(<<>>), 6)

\* decrypt_file from "Read and verify magic bytes" to "Read encrypted data";
\* decrypt_file_streaming repeats the same statements on a BufReader.
read_container(c) ==
    LET checked == validate_header(c)
        salt == read_exact(c, 6, SALT_LENGTH)
        nonce_bytes == read_exact(c, 6 + SALT_LENGTH, NONCE_LENGTH)
        metadata_len_bytes == read_exact(c, 6 + SALT_LENGTH + NONCE_LENGTH, 4)
        metadata_at == 10 + SALT_LENGTH + NONCE_LENGTH
    IN
    IF ~IsOk(checked.res) THEN checked
    ELSE IF ~IsOk(salt) THEN Rejected(Err("Io"), 6)
    ELSE IF ~IsOk(nonce_bytes) THEN Rejected(Err("Io"), 6 + SALT_LENGTH)
    ELSE IF ~IsOk(metadata_len_bytes)
    THEN Rejected(Err("Io"), 6 + SALT_LENGTH + NONCE_LENGTH)
    ELSE
    LET metadata_len == from_le_bytes(metadata_len_bytes.val)
        metadata_bytes == read_exact(c, metadata_at, metadata_len)
    IN
    IF ~IsOk(metadata_bytes) THEN Rejected(Err("Io"), metadata_at)
    ELSE
    LET metadata == from_bytes(metadata_bytes.val) IN
    IF ~IsOk(metadata) THEN Rejected(metadata, metadata_at + metadata_len)
    ELSE Parsed(Ok(<<>>), Size(c), salt.val, nonce_bytes.val, metadata.val,
                read_to_end(c, metadata_at + metadata_len))

decrypt_file(fsys, input_path, output_path, password, zstd_empty) ==
    IF ~fsys[input_path].exists THEN Outcome(Err("FileNotFound"), fsys, 0, 0)
    ELSE
    LET h == read_container(fsys[input_path].data) IN
    IF ~IsOk(h.res) THEN Outcome(h.res, fsys, 0, h.consumed)
    ELSE
    LET key == derive_key(password, h.salt)
        decrypted_data == aead_decrypt(key.val, h.nonce_bytes, h.ciphertext)
    IN
    IF ~IsOk(decrypted_data) THEN Outcome(Err("InvalidPassword"), fsys, 1, h.consumed)
    ELSE
    LET plaintext ==
            IF h.metadata.is_compressed
            THEN decompress(decrypted_data.val, MAX_DECOMPRESSED_SIZE, zstd_empty)
            ELSE decrypted_data
    IN
    IF ~IsOk(plaintext) THEN Outcome(plaintext, fsys, 1, h.consumed)
    ELSE Outcome(Ok(h.metadata),
                 write_all(open_truncate(fsys, output_path), output_path, plaintext.val),
                 1, h.consumed)

(***************************************************************************)
(* streaming.rs                                                            *)
(***************************************************************************)
\* The output is opened, and so truncated, before the input is read: the
\* header waits in the BufWriter, and the read loop sees the input as the
\* truncation left it.
encrypt_file_streaming(fsys, input_path, output_path, password, salt, nonce_bytes) ==
    IF ~fsys[input_path].exists THEN Outcome(Err("FileNotFound"), fsys, 0, 0)
    ELSE
      LET key == derive_key(password, salt)
          metadata == from_file(fsys, input_path, FALSE)
          metadata_bytes == to_bytes(metadata.val)
          header == FileHeader(salt, nonce_bytes, Len(metadata_bytes))
          opened == open_truncate(fsys, output_path)
          all_data == opened[input_path].data
          ciphertext == aead_encrypt(key.val, nonce_bytes, all_data)
          container ==
              Content(header_bytes(header, metadata_bytes), 0, ciphertext.val)
      IN Outcome(Ok(<<>>), write_all(opened, output_path, container),
                 1, Size(all_data))

decrypt_file_streaming(fsys, input_path, output_path, password) ==
    IF ~fsys[input_path].exists THEN Outcome(Err("FileNotFound"), fsys, 0, 0)
    ELSE
    LET h == read_container(fsys[input_path].data) IN
    IF ~IsOk(h.res) THEN Outcome(h.res, fsys, 0, h.consumed)
    ELSE
    LET key == derive_key(password, h.salt)
        plaintext == aead_decrypt(key.val, h.nonce_bytes, h.ciphertext)
    IN
    IF ~IsOk(plaintext) THEN Outcome(Err("InvalidPassword"), fsys, 1, h.consumed)
    ELSE Outcome(Ok(h.metadata),
                 write_all(open_truncate(fsys, output_path), output_path, plaintext.val),
                 1, h.consumed)

(***************************************************************************)
(* inspect.rs                                                              *)
(***************************************************************************)
\* A FileInfo whose size leaves out the 54 bytes of the fixed header.
FileInfo_without_header(version, algorithm, metadata, encrypted_size) ==
    [version |-> version, algorithm |-> algorithm, metadata |-> metadata,
     encrypted_size |-> encrypted_size - 54]

FileInfo(version, algorithm, metadata, encrypted_size) ==
    [version |-> version, algorithm |-> algorithm, metadata |-> metadata,
     encrypted_size |-> encrypted_size]

inspect_file(fsys, path) ==
    IF ~fsys[path].exists THEN Outcome(Err("Io"), fsys, 0, 0)
    ELSE
    LET c == fsys[path].data
        encrypted_size == Size(c)
        magic == read_exact(c, 0, 4)
        version == read_exact(c, 4, 1)
        algorithm == read_exact(c, 5, 1)
        skip_buffer == read_exact(c, 6, SALT_LENGTH + NONCE_LENGTH)
        metadata_len_bytes == read_exact(c, 6 + SALT_LENGTH + NONCE_LENGTH, 4)
        metadata_at == 10 + SALT_LENGTH + NONCE_LENGTH
    IN
    IF ~IsOk(magic) THEN Outcome(Err("Io"), fsys, 0, 0)
    ELSE IF magic.val # MAGIC_BYTES THEN Outcome(Err("InvalidFormat"), fsys, 0, 4)
    ELSE IF ~IsOk(version) THEN Outcome(Err("Io"), fsys, 0, 4)
    ELSE IF version.val[1] # VERSION
    THEN Outcome(ErrVersion(version.val[1]), fsys, 0, 5)
    ELSE IF ~IsOk(algorithm) THEN Outcome(Err("Io"), fsys, 0, 5)
    ELSE IF ~IsOk(skip_buffer) THEN Outcome(Err("Io"), fsys, 0, 6)
    ELSE IF ~IsOk(metadata_len_bytes)
    THEN Outcome(Err("Io"), fsys, 0, 6 + SALT_LENGTH + NONCE_LENGTH)
    ELSE
    LET algorithm_name ==
            IF algorithm.val[1] = ALGORITHM_AES256_GCM
            THEN "AES-256-GCM" ELSE "Unknown"
        metadata_len == from_le_bytes(metadata_len_bytes.val)
        metadata_bytes == read_exact(c, metadata_at, metadata_len)
    IN
    IF ~IsOk(metadata_bytes) THEN Outcome(Err("Io"), fsys, 0, metadata_at)
    ELSE
    LET metadata == from_bytes(metadata_bytes.val) IN
    IF ~IsOk(metadata) THEN Outcome(metadata, fsys, 0, metadata_at + metadata_len)
    ELSE Outcome(Ok(FileInfo(version.val[1], algorithm_name, metadata.val,
                             encrypted_size)),
                 fsys, 0, metadata_at + metadata_len)

(***************************************************************************)
(* The life of one file: it is encrypted (either encryptor), the container *)
(* may be altered behind the program's back, and a file is decrypted or    *)
(* inspected.  Decryption and inspection may also meet a file that no      *)
(* encryptor wrote: such a file starts its life where a container does.    *)
(***************************************************************************)
MaxPlainLen == 1

Passwords == {"correct horse", "battery staple"}

\* rng.fill_bytes(buf): any bytes; two values of each buffer are told apart.
RandomBytes(n) == {[i \in 1..n |-> v] : v \in {17, 42}}

\* Plaintexts: short ones, one of exactly the decompression limit, one a byte
\* above it.
PlainData ==
    {Plain([i \in 1..n |-> 64 + i]) : n \in 0..MaxPlainLen}
    \cup {Content(<<>>, MAX_DECOMPRESSED_SIZE, NoBlob),
          Content(<<1>>, MAX_DECOMPRESSED_SIZE, NoBlob)}

\* Files no encryptor wrote: eight bytes whose magic, version and algorithm
\* id are each right or wrong.
ForeignData ==
    {Plain(<<67, 82, 65, m, v, a, 0, 0>>) :
        m \in {84, 88}, v \in {0, 1, 2, 255}, a \in {0, 1, 2}}

\* History kept for the properties: how the container at a path was made.
Origin(mode, plain, password, compress_arg, metadata, altered) ==
    [mode |-> mode, plain |-> plain, password |-> password,
     compress |-> compress_arg, metadata |-> metadata, altered |-> altered]

NoOrigin == Origin("none", EmptyContent, "", FALSE, NoMeta, FALSE)

Call(op, inp, out, password, compress_arg, o, before, org) ==
    [op |-> op, inp |-> inp, out |-> out, password |-> password,
     compress |-> compress_arg, res |-> o.res, kdf |-> o.kdf,
     consumed |-> o.consumed, before |-> before, origin |-> org]

NoCall ==
    Call("none", "p", "p", "", FALSE, Outcome(Ok(<<>>), <<>>, 0, 0),
         [q \in Paths |-> NoFile], NoOrigin)

metaIdle ==
    /\ mPc = "idle"
    /\ mArg = [meta |-> NoMeta, bytes |-> <<>>]
    /\ mRes = Ok(<<>>)

Init ==
    /\ \/ \E d \in PlainData :
            fs = [q \in Paths |-> IF q = "p" THEN File(d, Some(1234567890)) ELSE NoFile]
       \/ \E f \in ForeignData :
            fs = [q \in Paths |->
                    CASE q = "p" -> File(Plain(<<65>>), Some(1234567890))
                      [] q = "c" -> File(f, Some(1234567890))
                      [] OTHER -> NoFile]
    /\ origin = [q \in Paths |-> NoOrigin]
    /\ last = NoCall
    /\ pc = IF fs["c"].exists THEN "crypt" ELSE "plain"
    /\ metaIdle

Encrypt ==
    /\ pc = "plain"
    /\ \E inp \in Paths, out \in Paths, w \in Passwords, z \in BOOLEAN,
          salt \in RandomBytes(SALT_LENGTH), nonce \in RandomBytes(NONCE_LENGTH) :
         LET o == encrypt_file(fs, inp, out, w, z, salt, nonce) IN
         /\ fs' = o.fs
         /\ origin' =
              IF IsOk(o.res)
              THEN [origin EXCEPT ![out] =
                      Origin("buffered", fs[inp].data, w, z,
                             from_file(fs, inp, z).val, FALSE)]
              ELSE origin
         /\ last' = Call("encrypt_file", inp, out, w, z, o, fs, origin[inp])
         /\ pc' = IF IsOk(o.res) THEN "crypt" ELSE "done"
    /\ UNCHANGED metaVars

EncryptStreaming ==
    /\ pc = "plain"
    /\ \E inp \in Paths, out \in Paths, w \in Passwords,
          salt \in RandomBytes(SALT_LENGTH), nonce \in RandomBytes(NONCE_LENGTH) :
         LET o == encrypt_file_streaming(fs, inp, out, w, salt, nonce) IN
         /\ fs' = o.fs
         /\ origin' =
              IF IsOk(o.res)
              THEN [origin EXCEPT ![out] =
                      Origin("streaming", fs[inp].data, w, FALSE,
                             from_file(fs, inp, FALSE).val, FALSE)]
              ELSE origin
         /\ last' = Call("encrypt_file_streaming", inp, out, w, FALSE, o, fs, origin[inp])
         /\ pc' = IF IsOk(o.res) THEN "crypt" ELSE "done"
    /\ UNCHANGED metaVars

\* c with the byte at 0-based offset k replaced by v
SetByte(c, k, v) == Content([c.bytes EXCEPT ![k + 1] = v], c.fill, c.tail)

ByteAt(c, k) == c.bytes[k + 1]

\* One field of a container changed: a byte of the magic, the version, the
\* algorithm id, the salt, the nonce, the metadata length (up by 1 or by 256,
\* or down), the
\* file name, the size, the time, the compression flag, or the ciphertext.
Alterations(c) ==
    LET name_len == from_le_bytes(Slice(c.bytes, 54, 2))
        meta == 54
        bump(k) == SetByte(c, k, (ByteAt(c, k) + 1) % 256)
    IN
    {bump(k) : k \in {0, 4, 5, 6, 6 + SALT_LENGTH, 50, 51,
                      meta + 2 + name_len, meta + 2 + name_len + 8}}
    \cup {SetByte(c, 50, ByteAt(c, 50) - 1)}
    \cup {bump(meta + 2) : x \in IF name_len > 0 THEN {1} ELSE {}}
    \cup {SetByte(c, meta + 2 + name_len + 16, 1 - ByteAt(c, meta + 2 + name_len + 16))}
    \cup {Content(c.bytes, c.fill, Junk(Size(Content(<<>>, 0, c.tail))))}

Alter ==
    /\ pc = "crypt"
    /\ \E path \in Paths :
         /\ origin[path].mode # "none"
         /\ \E c \in Alterations(fs[path].data) :
              /\ fs' = [fs EXCEPT ![path].data = c]
              /\ origin' = [origin EXCEPT ![path].altered = TRUE]
    /\ pc' = "altered"
    /\ UNCHANGED <<last, metaVars>>

\* zstd's answer for an empty input matters only to decrypt_file, and only
\* when it is asked.
Decrypt ==
    /\ pc \in {"plain", "crypt", "altered"}
    /\ \E inp \in Paths, out \in Paths, w \in Passwords, zstd_empty \in BOOLEAN :
         LET o == decrypt_file(fs, inp, out, w, zstd_empty) IN
         /\ fs' = o.fs
         /\ origin' = IF IsOk(o.res) THEN [origin EXCEPT ![out] = NoOrigin] ELSE origin
         /\ last' = Call("decrypt_file", inp, out, w, FALSE, o, fs, origin[inp])
    /\ pc' = "done"
    /\ UNCHANGED metaVars

DecryptStreaming ==
    /\ pc \in {"plain", "crypt", "altered"}
    /\ \E inp \in Paths, out \in Paths, w \in Passwords :
         LET o == decrypt_file_streaming(fs, inp, out, w) IN
         /\ fs' = o.fs
         /\ origin' = IF IsOk(o.res) THEN [origin EXCEPT ![out] = NoOrigin] ELSE origin
         /\ last' = Call("decrypt_file_streaming", inp, out, w, FALSE, o, fs, origin[inp])
    /\ pc' = "done"
    /\ UNCHANGED metaVars

Inspect ==
    /\ pc \in {"plain", "crypt", "altered"}
    /\ \E path \in Paths :
         LET o == inspect_file(fs, path) IN
         /\ fs' = o.fs
         /\ last' = Call("inspect_file", path, path, "", FALSE, o, fs, origin[path])
    /\ pc' = "done"
    /\ UNCHANGED <<origin, metaVars>>

Next == Encrypt \/ EncryptStreaming \/ Alter \/ Decrypt \/ DecryptStreaming \/ Inspect

Spec == Init /\ [][Next]_vars

(***************************************************************************)
(* The metadata codec on its own: to_bytes and from_bytes applied to       *)
(* inputs drawn from bounded sets.                                         *)
(***************************************************************************)
MaxNameLen == 3

MaxBlockLen == 23

U16_MAX == 65535

AsciiName(n) == [i \in 1..n |-> 97]

\* Valid UTF-8 file names: ASCII of several lengths up to the largest the
\* 2-byte length prefix can announce, and one with a two-byte character.
FileNames ==
    {AsciiName(n) : n \in 0..MaxNameLen} \cup {<<195, 169, 46, 98>>}
    \cup {AsciiName(U16_MAX)}

Sizes == {0, 1, 12345, 2147483647}

Times == {None, Some(0), Some(1), Some(1234567890)}

Metas ==
    {FileMetadata(f, s, t, c) : f \in FileNames, s \in Sizes,
                                t \in Times, c \in BOOLEAN}

\* The blocks handed to from_bytes: the first n bytes of an encoded metadata
\* followed by zero bytes, so a block is cut short, exact, or has a surplus.
BlockMetas ==
    {FileMetadata(AsciiName(l), s, t, c) : l \in 0..MaxNameLen, s \in {0, 12345},
                                           t \in {None, Some(1)}, c \in BOOLEAN}

Block(m, n) == SubSeq(to_bytes(m) \o [i \in 1..MaxBlockLen |-> 0], 1, n)

Blocks == {Block(m, n) : m \in BlockMetas, n \in 0..MaxBlockLen}

cryptIdle ==
    /\ fs = [q \in Paths |-> NoFile]
    /\ origin = [q \in Paths |-> NoOrigin]
    /\ last = NoCall
    /\ pc = "idle"

InitMeta ==
    /\ cryptIdle
    /\ metaIdle

\* m.to_bytes()
Encode ==
    /\ mPc = "idle"
    /\ \E m \in Metas :
         /\ mArg' = [meta |-> m, bytes |-> to_bytes(m)]
         /\ mRes' = Ok(to_bytes(m))
    /\ mPc' = "to_bytes"
    /\ UNCHANGED cryptVars

\* FileMetadata::from_bytes(&m.to_bytes())
DecodeEncoded ==
    /\ mPc = "to_bytes"
    /\ mRes' = from_bytes(mArg.bytes)
    /\ mPc' = "round_trip"
    /\ UNCHANGED <<mArg, cryptVars>>

\* FileMetadata::from_bytes(block) on a block read from a file
DecodeBlock ==
    /\ mPc = "idle"
    /\ \E b \in Blocks :
         /\ mArg' = [meta |-> NoMeta, bytes |-> b]
         /\ mRes' = from_bytes(b)
    /\ mPc' = "from_bytes"
    /\ UNCHANGED cryptVars

NextMeta == Encode \/ DecodeEncoded \/ DecodeBlock

SpecMeta == InitMeta /\ [][NextMeta]_vars

(***************************************************************************)
(* The four file operations when a call into the operating system fails.   *)
(* `fault` names the failing call: the read of the input, the open of the  *)
(* output, or a write to it after `written` bytes went through.  The calls *)
(* are made in the order of the source, so what is on disk when the error  *)
(* returns is what the calls before the failing one left there.            *)
(***************************************************************************)
\* The first n bytes of what a writer meant to write.
Prefix(c, n) ==
    IF n <= Len(c.bytes) + c.fill THEN Plain(Take(c, n))
    ELSE Content(<<>>, 0, Junk(n))

\* A write that fails does so before the last byte: after `written` bytes, or
\* fewer when there are not that many.
Short(c, written) == IF written < Size(c) THEN written ELSE Size(c) - 1

\* o is what the call does when every system call succeeds.  A failing read
\* of the input returns with the output as it then is: untouched when it is
\* not open yet, and when it is (streaming_writer) truncated and holding what
\* the dropped BufWriter writes out, the header and the metadata block.  A
\* failing open leaves the output untouched; a failing write leaves the
\* output truncated and holding the bytes written before it.
with_fault(o, fsys, output_path, fault, streaming_writer) ==
    IF ~IsOk(o.res) \/ fault.at = "none" THEN o
    ELSE IF fault.at = "open" THEN Outcome(Err("Io"), fsys, o.kdf, o.consumed)
    ELSE IF fault.at = "read"
    THEN IF streaming_writer
         THEN Outcome(Err("Io"),
                      write_all(open_truncate(fsys, output_path), output_path,
                                Plain(o.fs[output_path].data.bytes)),
                      o.kdf, 0)
         ELSE Outcome(Err("Io"), fsys, 0, 0)
    ELSE IF Size(o.fs[output_path].data) = 0 THEN o
    ELSE Outcome(Err("Io"),
                 write_all(open_truncate(fsys, output_path), output_path,
                           Prefix(o.fs[output_path].data,
                                  Short(o.fs[output_path].data, fault.written))),
                 o.kdf, o.consumed)

\* encrypt_file: the input is read to its end before the output is opened;
\* the output is an unbuffered File, written piece by piece.
encrypt_file_io(fsys, input_path, output_path, password, compress_arg, salt, nonce_bytes, fault) ==
    with_fault(encrypt_file(fsys, input_path, output_path, password, compress_arg,
                            salt, nonce_bytes),
               fsys, output_path, fault, FALSE)

\* decrypt_file: the output is opened after the cipher and the decompressor
\* have answered.
decrypt_file_io(fsys, input_path, output_path, password, zstd_empty, fault) ==
    with_fault(decrypt_file(fsys, input_path, output_path, password, zstd_empty),
               fsys, output_path, fault, FALSE)

\* encrypt_file_streaming: the output is opened, and the header handed to the
\* BufWriter, before the read loop.
encrypt_file_streaming_io(fsys, input_path, output_path, password, salt, nonce_bytes, fault) ==
    with_fault(encrypt_file_streaming(fsys, input_path, output_path, password,
                                      salt, nonce_bytes),
               fsys, output_path, fault, TRUE)

\* decrypt_file_streaming: the input is read to its end before the output is
\* opened.
decrypt_file_streaming_io(fsys, input_path, output_path, password, fault) ==
    with_fault(decrypt_file_streaming(fsys, input_path, output_path, password),
               fsys, output_path, fault, FALSE)

(***************************************************************************)
(* secure_delete.rs.  The calls into the operating system can fail; which  *)
(* one fails, if any, is an input of the model (`fault`).                  *)
(***************************************************************************)
Modes == {"Quick", "Standard", "Paranoid"}

DEFAULT_OVERWRITE_PASSES == 3

\* Every mode runs the default number of passes.
passes_default(mode) == DEFAULT_OVERWRITE_PASSES

\* SecureDeleteMode::passes
passes(mode) ==
    CASE mode = "Quick" -> 1
      [] mode = "Standard" -> 3
      [] mode = "Paranoid" -> 7

Random == [kind |-> "Random"]

Zeros == [kind |-> "Zeros"]

Ones == [kind |-> "Ones"]

Pattern(byte) == [kind |-> "Pattern", byte |-> byte]

\* The match on mode and pass in the loop of secure_delete; pass counts from 0.
pattern_for(mode, pass) ==
    CASE mode = "Quick" -> Random
      [] mode = "Standard" ->
           (CASE pass = 0 -> Random
              [] pass = 1 -> Zeros
              [] OTHER -> Random)
      [] mode = "Paranoid" ->
           (CASE pass = 0 -> Random
              [] pass = 1 -> Ones
              [] pass = 2 -> Random
              [] pass = 3 -> Pattern(170)
              [] pass = 4 -> Pattern(85)
              [] pass = 5 -> Random
              [] OTHER -> Random)

\* The byte a pattern fills the buffer with; rnd is what the generator gives.
fill_byte(pattern, rnd) ==
    CASE pattern.kind = "Random" -> rnd
      [] pattern.kind = "Zeros" -> 0
      [] pattern.kind = "Ones" -> 255
      [] pattern.kind = "Pattern" -> pattern.byte

\* A pass whose write error is dropped.
overwrite_with_pattern_unchecked(bytes, size, pattern, rnd, written) ==
    [res |-> Ok(<<>>),
     bytes |-> [i \in 1..Len(bytes) |->
                  IF i <= written THEN fill_byte(pattern, rnd) ELSE bytes[i]]]

\* overwrite_with_pattern: the first `written` bytes of the file are replaced;
\* written = size unless write_all failed on the way.
overwrite_with_pattern(bytes, size, pattern, rnd, written) ==
    [res |-> IF written = size THEN Ok(<<>>) ELSE Err("Io"),
     bytes |-> [i \in 1..Len(bytes) |->
                  IF i <= written THEN fill_byte(pattern, rnd) ELSE bytes[i]]]

NoFault == [at |-> "none", pass |-> 0, written |-> 0]

Fault(at, pass, written) == [at |-> at, pass |-> pass, written |-> written]

\* The loop of secure_delete from pass `pass` on: the result, the bytes left
\* in the file, the patterns handed to overwrite_with_pattern so far.
RECURSIVE overwrite_passes(_, _, _, _, _, _, _)
overwrite_passes(bytes, size, mode, pass, fault, rnd, log) ==
    IF pass >= passes(mode) THEN [res |-> Ok(<<>>), bytes |-> bytes, log |-> log]
    ELSE IF fault.at = "seek" /\ fault.pass = pass
    THEN [res |-> Err("Io"), bytes |-> bytes, log |-> log]
    ELSE
    LET pattern == pattern_for(mode, pass)
        w == overwrite_with_pattern(
                 bytes, size, pattern, rnd,
                 IF fault.at = "write" /\ fault.pass = pass
                 THEN fault.written ELSE size)
        logged == Append(log, pattern)
    IN
    IF ~IsOk(w.res) THEN [res |-> w.res, bytes |-> w.bytes, log |-> logged]
    ELSE IF fault.at = "sync" /\ fault.pass = pass
    THEN [res |-> Err("Io"), bytes |-> w.bytes, log |-> logged]
    ELSE overwrite_passes(w.bytes, size, mode, pass + 1, fault, rnd, logged)

\* An unlink that does nothing.
remove_file_skipped(fsys, path) == fsys

\* std::fs::remove_file on an existing file that the caller may unlink
remove_file(fsys, path) == [fsys EXCEPT ![path] = NoFile]

Deleted(res, fsys, log) == [res |-> res, fs |-> fsys, log |-> log]

secure_delete(fsys, path, mode, fault, rnd) ==
    IF ~fsys[path].exists \/ fault.at = "stat" THEN Deleted(Err("Io"), fsys, <<>>)
    ELSE
    LET file_size == Size(fsys[path].data) IN
    IF file_size = 0
    THEN IF fault.at = "remove" THEN Deleted(Err("Io"), fsys, <<>>)
         ELSE Deleted(Ok(<<>>), remove_file(fsys, path), <<>>)
    ELSE IF fault.at = "open" THEN Deleted(Err("Io"), fsys, <<>>)
    ELSE
    LET o == overwrite_passes(fsys[path].data.bytes, file_size, mode, 0,
                              fault, rnd, <<>>)
        written == [fsys EXCEPT ![path].data = Plain(o.bytes)]
    IN
    IF ~IsOk(o.res) THEN Deleted(o.res, written, o.log)
    ELSE IF fault.at = "remove" THEN Deleted(Err("Io"), written, o.log)
    ELSE Deleted(Ok(<<>>), remove_file(written, path), o.log)

(***************************************************************************)
(* One secure_delete call on a small file system.                          *)
(***************************************************************************)
MaxDeleteLen == 2

\* The files secure_delete is tried on: empty, and of a few bytes.
DeleteData == {Plain([i \in 1..n |-> 64 + i]) : n \in 0..MaxDeleteLen}

\* Which system call fails: none, the stat, the open, the seek / a write
\* (after `written` bytes) / the sync of one pass, or the unlink.
Faults(size) ==
    {NoFault} \cup {Fault(at, 0, 0) : at \in {"stat", "open", "remove"}}
    \cup {Fault(at, k, 0) : at \in {"seek", "sync"}, k \in 0..6}
    \cup {Fault("write", k, n) : k \in 0..6, n \in 0..(size - 1)}

DeleteCall(path, mode, fault, d, before) ==
    [op |-> "secure_delete", path |-> path, mode |-> mode, fault |-> fault,
     res |-> d.res, log |-> d.log, before |-> before]

InitDelete ==
    /\ \E d \in DeleteData :
         fs = [q \in Paths |-> IF q = "p" THEN File(d, Some(1234567890)) ELSE NoFile]
    /\ origin = [q \in Paths |-> NoOrigin]
    /\ last = NoCall
    /\ pc = "delete"
    /\ metaIdle

SecureDelete ==
    /\ pc = "delete"
    /\ \E path \in Paths, mode \in Modes, rnd \in {17, 42} :
         \E fault \in Faults(Size(fs[path].data)) :
           LET d == secure_delete(fs, path, mode, fault, rnd) IN
           /\ fs' = d.fs
           /\ last' = DeleteCall(path, mode, fault, d, fs)
    /\ pc' = "deleted"
    /\ UNCHANGED <<origin, metaVars>>

NextDelete == SecureDelete

SpecDelete == InitDelete /\ [][NextDelete]_vars

(***************************************************************************)
(* The life of one file when system calls can fail.                        *)
(***************************************************************************)
\* Which call fails: none, the read of the input, the open of the output,
\* or a write that stops short.
IoFaults ==
    {NoFault, Fault("read", 0, 0), Fault("open", 0, 0)}
    \cup {Fault("write", 0, n) : n \in {0, 5}}

IoCall(op, inp, out, password, compress_arg, o, before, org, fault) ==
    [op |-> op, inp |-> inp, out |-> out, password |-> password,
     compress |-> compress_arg, res |-> o.res, kdf |-> o.kdf,
     consumed |-> o.consumed, before |-> before, origin |-> org, fault |-> fault]

EncryptIo ==
    /\ pc = "plain"
    /\ \E inp \in Paths, out \in Paths, w \in Passwords, z \in BOOLEAN,
          salt \in RandomBytes(SALT_LENGTH), nonce \in RandomBytes(NONCE_LENGTH) :
         \E fault \in IoFaults :
           LET o == encrypt_file_io(fs, inp, out, w, z, salt, nonce, fault) IN
           /\ fs' = o.fs
           /\ origin' =
                IF IsOk(o.res)
                THEN [origin EXCEPT ![out] =
                        Origin("buffered", fs[inp].data, w, z,
                               from_file(fs, inp, z).val, FALSE)]
                ELSE origin
           /\ last' = IoCall("encrypt_file", inp, out, w, z, o, fs, origin[inp], fault)
           /\ pc' = IF IsOk(o.res) THEN "crypt" ELSE "done"
    /\ UNCHANGED metaVars

EncryptStreamingIo ==
    /\ pc = "plain"
    /\ \E inp \in Paths, out \in Paths, w \in Passwords,
          salt \in RandomBytes(SALT_LENGTH), nonce \in RandomBytes(NONCE_LENGTH) :
         \E fault \in IoFaults :
           LET o == encrypt_file_streaming_io(fs, inp, out, w, salt, nonce, fault) IN
           /\ fs' = o.fs
           /\ origin' =
                IF IsOk(o.res)
                THEN [origin EXCEPT ![out] =
                        Origin("streaming", fs[inp].data, w, FALSE,
                               from_file(fs, inp, FALSE).val, FALSE)]
                ELSE origin
           /\ last' = IoCall("encrypt_file_streaming", inp, out, w, FALSE, o, fs,
                             origin[inp], fault)
           /\ pc' = IF IsOk(o.res) THEN "crypt" ELSE "done"
    /\ UNCHANGED metaVars

DecryptIo ==
    /\ pc \in {"plain", "crypt"}
    /\ \E inp \in Paths, out \in Paths, w \in Passwords, zstd_empty \in BOOLEAN :
         \E fault \in IoFaults :
           LET o == decrypt_file_io(fs, inp, out, w, zstd_empty, fault) IN
           /\ fs' = o.fs
           /\ origin' = IF IsOk(o.res) THEN [origin EXCEPT ![out] = NoOrigin] ELSE origin
           /\ last' = IoCall("decrypt_file", inp, out, w, FALSE, o, fs, origin[inp], fault)
    /\ pc' = "done"
    /\ UNCHANGED metaVars

DecryptStreamingIo ==
    /\ pc \in {"plain", "crypt"}
    /\ \E inp \in Paths, out \in Paths, w \in Passwords :
         \E fault \in IoFaults :
           LET o == decrypt_file_streaming_io(fs, inp, out, w, fault) IN
           /\ fs' = o.fs
           /\ origin' = IF IsOk(o.res) THEN [origin EXCEPT ![out] = NoOrigin] ELSE origin
           /\ last' = IoCall("decrypt_file_streaming", inp, out, w, FALSE, o, fs,
                             origin[inp], fault)
    /\ pc' = "done"
    /\ UNCHANGED metaVars

NextIo == EncryptIo \/ EncryptStreamingIo \/ DecryptIo \/ DecryptStreamingIo

SpecIo == Init /\ [][NextIo]_vars

(***************************************************************************)
(* The batch encryptor's step for one file (main.rs, handle_encrypt), with *)
(* the configuration it is given.                                          *)
(***************************************************************************)
STREAMING_THRESHOLD == 104857600

DEFAULT_COMPRESSION_LEVEL == 3

\* A threshold that a file of exactly STREAMING_THRESHOLD bytes passes.
should_use_streaming_inclusive(fsys, path) ==
    IF ~fsys[path].exists THEN Err("Io")
    ELSE Ok(Size(fsys[path].data) >= STREAMING_THRESHOLD)

\* streaming::should_use_streaming
should_use_streaming(fsys, path) ==
    IF ~fsys[path].exists THEN Err("Io")
    ELSE Ok(Size(fsys[path].data) > STREAMING_THRESHOLD)

\* config.rs, the fields the claims speak of
Config(compression_level, compress_by_default, memory_kb, time_cost, parallelism) ==
    [compression_level |-> compression_level,
     compress_by_default |-> compress_by_default,
     argon2_memory_kb |-> memory_kb, argon2_time_cost |-> time_cost,
     argon2_parallelism |-> parallelism]

\* Config::default()
DefaultConfig == Config(3, FALSE, 65536, 3, 4)

\* The cost parameters derive_key builds its Argon2id instance with.
argon2_params == [m_cost |-> 65536, t_cost |-> 3, p_cost |-> 4]

\* compression::compress: level.unwrap_or(DEFAULT_COMPRESSION_LEVEL)
compression_level(level) ==
    IF level = None THEN DEFAULT_COMPRESSION_LEVEL ELSE level[1]

\* What encrypting one file of a batch did: the function called, the compress
\* argument given to it, the parameters the key derivation and the
\* compressor ran with, and the outcome of the call.
Routed(route, compress_arg, o) ==
    [route |-> route, compress |-> compress_arg, params |-> argon2_params,
     level |-> compression_level(None), o |-> o]

\* A step in which a requested compression keeps a large file on the
\* buffered path.
encrypt_entry_compress_first(fsys, path, output_path, password, compress_flag, config, salt, nonce_bytes) ==
    LET compress_opt == compress_flag \/ config.compress_by_default
        use_streaming == should_use_streaming(fsys, path)
    IN
    IF ~IsOk(use_streaming)
    THEN Routed("none", FALSE, Outcome(use_streaming, fsys, 0, 0))
    ELSE IF use_streaming.val /\ ~compress_opt
    THEN Routed("streaming", FALSE,
                encrypt_file_streaming(fsys, path, output_path, password,
                                       salt, nonce_bytes))
    ELSE Routed("buffered", compress_opt,
                encrypt_file(fsys, path, output_path, password, compress_opt,
                             salt, nonce_bytes))

\* handle_encrypt: `compress || config.compress_by_default`, then for one
\* file "Encrypt the file (use streaming for large files)".
encrypt_entry(fsys, path, output_path, password, compress_flag, config, salt, nonce_bytes) ==
    LET compress_opt == compress_flag \/ config.compress_by_default
        use_streaming == should_use_streaming(fsys, path)
    IN
    IF ~IsOk(use_streaming)
    THEN Routed("none", FALSE, Outcome(use_streaming, fsys, 0, 0))
    ELSE IF use_streaming.val
    THEN Routed("streaming", FALSE,
                encrypt_file_streaming(fsys, path, output_path, password,
                                       salt, nonce_bytes))
    ELSE Routed("buffered", compress_opt /\ ~use_streaming.val,
                encrypt_file(fsys, path, output_path, password,
                             compress_opt /\ ~use_streaming.val,
                             salt, nonce_bytes))

\* Files around the streaming threshold, and small ones.
RouteData ==
    {Plain(<<>>), Plain(<<65>>)}
    \cup {Content(<<>>, STREAMING_THRESHOLD + k, NoBlob) : k \in {-1, 0, 1}}

Configs ==
    {Config(l, b, m, t, 4) : l \in {3, 19}, b \in BOOLEAN,
                              m \in {65536, 131072}, t \in {3, 4}}

RouteCall(op, path, out, compress_flag, config, r, before) ==
    [op |-> op, inp |-> path, out |-> out, compress |-> compress_flag,
     config |-> config, route |-> r.route, compress_arg |-> r.compress,
     params |-> r.params, level |-> r.level, res |-> r.o.res, before |-> before]

InitRoute ==
    /\ \E d \in RouteData :
         fs = [q \in Paths |-> IF q = "p" THEN File(d, Some(1234567890)) ELSE NoFile]
    /\ origin = [q \in Paths |-> NoOrigin]
    /\ last = NoCall
    /\ pc = "route"
    /\ metaIdle

ShouldUseStreaming ==
    /\ pc = "route"
    /\ \E path \in Paths :
         last' = RouteCall("should_use_streaming", path, path, FALSE, DefaultConfig,
                           Routed("none", FALSE,
                                  Outcome(should_use_streaming(fs, path), fs, 0, 0)),
                           fs)
    /\ pc' = "routed"
    /\ UNCHANGED <<fs, origin, metaVars>>

EncryptEntry ==
    /\ pc = "route"
    /\ \E path \in Paths, out \in Paths, w \in Passwords, z \in BOOLEAN,
          config \in Configs,
          salt \in RandomBytes(SALT_LENGTH), nonce \in RandomBytes(NONCE_LENGTH) :
         LET r == encrypt_entry(fs, path, out, w, z, config, salt, nonce) IN
         /\ fs' = r.o.fs
         /\ last' = RouteCall("handle_encrypt", path, out, z, config, r, fs)
    /\ pc' = "routed"
    /\ UNCHANGED <<origin, metaVars>>

NextRoute == ShouldUseStreaming \/ EncryptEntry

SpecRoute == InitRoute /\ [][NextRoute]_vars

(***************************************************************************)
(* keyfile.rs: key files                                                    *)
(***************************************************************************)
DEFAULT_KEYFILE_SIZE == 4096

MAX_KEYFILE_SIZE == 10485760

\* n bytes drawn from the thread's random generator; seed tells two draws apart.
RandomContent(n, seed) ==
    Content(<<>>, 0, IF n = 0 THEN NoBlob ELSE [t |-> "junk", len |-> n, seed |-> seed])

\* Sha256::digest: a 32-byte value that determines, and is determined by, the
\* bytes hashed.
Sha256(c) == [hash |-> "sha256", len |-> 32, of |-> c]

Generated(res, fsys) == [res |-> res, fs |-> fsys]

generate_keyfile_create_first(fsys, path, size, seed, fault) ==
    LET n == IF size = None THEN DEFAULT_KEYFILE_SIZE ELSE size[1] IN
    IF n > MAX_KEYFILE_SIZE
      THEN Generated(Err("InvalidFormat"), [fsys EXCEPT ![path] = File(EmptyContent, Some(1700000000))])
      ELSE Generated(Ok("unit"), [fsys EXCEPT ![path] = File(RandomContent(n, seed), Some(1700000000))])

\* fault: "none", or "create" (File::create fails), or "write" (write_all or
\* sync_all fails after File::create has truncated the file).
generate_keyfile(fsys, path, size, seed, fault) ==
    LET n == IF size = None THEN DEFAULT_KEYFILE_SIZE ELSE size[1] IN
    IF n > MAX_KEYFILE_SIZE THEN Generated(Err("InvalidFormat"), fsys)
    ELSE IF fault = "create" THEN Generated(Err("Io"), fsys)
    ELSE IF fault = "write"
      THEN Generated(Err("Io"), [fsys EXCEPT ![path] = File(EmptyContent, Some(1700000000))])
    ELSE Generated(Ok("unit"), [fsys EXCEPT ![path] = File(RandomContent(n, seed), Some(1700000000))])

read_keyfile_accepts_empty(fsys, path) ==
    IF ~fsys[path].exists THEN Err("Io")
    ELSE IF Size(fsys[path].data) > MAX_KEYFILE_SIZE THEN Err("InvalidFormat")
    ELSE Ok(Sha256(fsys[path].data))

read_keyfile(fsys, path) ==
    IF ~fsys[path].exists THEN Err("Io")
    ELSE IF Size(fsys[path].data) > MAX_KEYFILE_SIZE THEN Err("InvalidFormat")
    ELSE IF Size(fsys[path].data) = 0 THEN Err("InvalidFormat")
    ELSE Ok(Sha256(fsys[path].data))

(***************************************************************************)
(* SpecKeyfile: key files are generated and read                            *)
(***************************************************************************)
MaxKeyfileCalls == 2

KeyfileSizes == {0, 1, DEFAULT_KEYFILE_SIZE, MAX_KEYFILE_SIZE - 1, MAX_KEYFILE_SIZE, MAX_KEYFILE_SIZE + 1}

KeyfileData == {RandomContent(n, 9) : n \in KeyfileSizes} \cup {Plain(<<7>>), Plain(<<7, 8>>)}

NoKeyfileCall == [op |-> "none", path |-> "", res |-> Ok("unit")]

KeyfileCall(op, path, size, res, before, prev, n) ==
    [op |-> op, path |-> path, size |-> size, res |-> res, before |-> before,
     prev |-> [op |-> prev.op, path |-> prev.path, res |-> prev.res], n |-> n]

InitKeyfile ==
    /\ \E f \in {File(d, Some(1234567890)) : d \in KeyfileData} \cup {NoFile} :
         fs = [q \in Paths |-> IF q = "p" THEN f ELSE NoFile]
    /\ origin = [q \in Paths |-> NoOrigin]
    /\ last = KeyfileCall("none", "", None, Ok("unit"), fs, NoKeyfileCall, 0)
    /\ pc = "keyfile"
    /\ metaIdle

GenerateKeyfile ==
    /\ pc = "keyfile"
    /\ last.n < MaxKeyfileCalls
    /\ \E path \in {"p", "c"}, seed \in {1, 2}, fault \in {"none", "create", "write"} :
         \E size \in {None} \cup {Some(n) : n \in KeyfileSizes} :
           LET g == generate_keyfile(fs, path, size, seed, fault) IN
           /\ fs' = g.fs
           /\ last' = KeyfileCall("generate_keyfile", path, size, g.res, fs, last, last.n + 1)
    /\ UNCHANGED <<origin, pc, metaVars>>

ReadKeyfile ==
    /\ pc = "keyfile"
    /\ last.n < MaxKeyfileCalls
    /\ \E path \in {"p", "c"} :
         last' = KeyfileCall("read_keyfile", path, None, read_keyfile(fs, path), fs, last, last.n + 1)
    /\ UNCHANGED <<fs, origin, pc, metaVars>>

NextKeyfile == GenerateKeyfile \/ ReadKeyfile

SpecKeyfile == InitKeyfile /\ [][NextKeyfile]_vars

(***************************************************************************)
(* SpecShred: secure_delete one system call at a time                       *)
(***************************************************************************)
BUFFER_SIZE == 65536

write_size_whole(remaining) == remaining

\* remaining.min(BUFFER_SIZE as u64)
write_size(remaining) == IF remaining < BUFFER_SIZE THEN remaining ELSE BUFFER_SIZE

\* A file after len bytes of patterns were written over it: the byte values are
\* those of pattern_for and fill_byte; here only the length is kept.
Overwritten(len) == Content(<<>>, 0, Junk(len))

ShredSizes == {0, 1, BUFFER_SIZE, BUFFER_SIZE + 1, 2 * BUFFER_SIZE + 1}

\* The locals of a running secure_delete.  pass: index of the pass under way;
\* offset: the handle's cursor; remaining: bytes the pass still has to write;
\* chunk: length of the last write; first_offset: cursor at the first write of
\* the pass (-1 before it); written: bytes written by the pass; synced: passes
\* followed by sync_all; open: the handle is held; removed: remove_file ran.
Shred(path, mode, file_size) ==
    [op |-> "secure_delete", path |-> path, mode |-> mode, file_size |-> file_size,
     pass |-> 0, offset |-> 0, remaining |-> 0, chunk |-> 0, first_offset |-> -1,
     written |-> 0, synced |-> 0, open |-> FALSE, removed |-> FALSE, res |-> None]

InitShred ==
    /\ \E n \in ShredSizes :
         fs = [q \in Paths |-> IF q = "p" THEN File(Content(<<>>, n, NoBlob), Some(1234567890)) ELSE NoFile]
    /\ origin = [q \in Paths |-> NoOrigin]
    /\ last = Shred("", "Quick", 0)
    /\ pc = "shred"
    /\ metaIdle

\* fs::metadata, the empty-file shortcut, OpenOptions::new().write(true).open
ShredOpen ==
    /\ pc = "shred"
    /\ \E path \in {"p", "o"}, mode \in Modes :
         LET l == Shred(path, mode, Size(fs[path].data)) IN
         IF ~fs[path].exists
           THEN /\ last' = [l EXCEPT !.res = Some(Err("Io"))]
                /\ pc' = "shred_done"
                /\ fs' = fs
         ELSE IF l.file_size = 0
           THEN /\ fs' = remove_file(fs, path)
                /\ last' = [l EXCEPT !.res = Some(Ok("unit")), !.removed = TRUE]
                /\ pc' = "shred_done"
         ELSE /\ last' = [l EXCEPT !.open = TRUE]
              /\ pc' = "shred_seek"
              /\ fs' = fs
    /\ UNCHANGED <<origin, metaVars>>

\* file.seek(SeekFrom::Start(0)), then overwrite_with_pattern's `remaining = size`
ShredSeek ==
    /\ pc = "shred_seek"
    /\ last' = [last EXCEPT !.offset = 0, !.remaining = last.file_size,
                            !.written = 0, !.first_offset = -1]
    /\ pc' = "shred_write"
    /\ UNCHANGED <<fs, origin, metaVars>>

\* one turn of overwrite_with_pattern's loop: file.write_all(&buffer[..write_size])
ShredWrite ==
    /\ pc = "shred_write"
    /\ LET n == write_size(last.remaining)
           end == last.offset + n
           len == Size(fs[last.path].data)
       IN /\ fs' = [fs EXCEPT ![last.path].data = Overwritten(IF end > len THEN end ELSE len)]
          /\ last' = [last EXCEPT !.chunk = n, !.offset = end,
                                  !.remaining = last.remaining - n,
                                  !.written = last.written + n,
                                  !.first_offset = IF last.written = 0 THEN last.offset
                                                   ELSE last.first_offset]
          /\ pc' = IF last.remaining - n > 0 THEN "shred_write" ELSE "shred_sync"
    /\ UNCHANGED <<origin, metaVars>>

\* file.sync_all(), then the next turn of the pass loop or the end of it
ShredSync ==
    /\ pc = "shred_sync"
    /\ last' = [last EXCEPT !.synced = last.synced + 1, !.pass = last.pass + 1]
    /\ pc' = IF last.pass + 1 < passes(last.mode) THEN "shred_seek" ELSE "shred_drop"
    /\ UNCHANGED <<fs, origin, metaVars>>

\* drop(file)
ShredDrop ==
    /\ pc = "shred_drop"
    /\ last' = [last EXCEPT !.open = FALSE]
    /\ pc' = "shred_remove"
    /\ UNCHANGED <<fs, origin, metaVars>>

\* std::fs::remove_file(path)
ShredRemove ==
    /\ pc = "shred_remove"
    /\ fs' = remove_file(fs, last.path)
    /\ last' = [last EXCEPT !.res = Some(Ok("unit")), !.removed = TRUE]
    /\ pc' = "shred_done"
    /\ UNCHANGED <<origin, metaVars>>

\* A seek, write, sync or unlink fails: `?` returns the error and the handle,
\* if still held, is dropped on the way out.
ShredFail ==
    /\ pc \in {"shred_seek", "shred_write", "shred_sync", "shred_remove"}
    /\ last' = [last EXCEPT !.res = Some(Err("Io")), !.open = FALSE]
    /\ pc' = "shred_done"
    /\ UNCHANGED <<fs, origin, metaVars>>

NextShred ==
    \/ ShredOpen
    \/ ShredSeek
    \/ ShredWrite
    \/ ShredSync
    \/ ShredDrop
    \/ ShredRemove
    \/ ShredFail

SpecShred == InitShred /\ [][NextShred]_vars

(***************************************************************************)
(* main.rs: handle_encrypt, one file of the batch per step                  *)
(***************************************************************************)
\* The directories that exist.
Dirs == {"d", "e", "out"}

is_file(fsys, path) == path \in DOMAIN fsys /\ fsys[path].exists

\* Path::exists
path_exists(fsys, path) == path \in Dirs \/ is_file(fsys, path)

\* walker.rs collect_files: a file is its own entry; a directory yields its
\* files in the order walk, the directory listing, gives them.
collect_files(fsys, path, walk) ==
    IF is_file(fsys, path) THEN <<path>>
    ELSE IF path \in Dirs
    THEN SelectSeq(walk, LAMBDA q : parent(q) = path /\ is_file(fsys, q))
    ELSE <<>>

RECURSIVE collect_all(_, _, _)
collect_all(fsys, paths, walk) ==
    IF paths = <<>> THEN <<>>
    ELSE collect_files(fsys, paths[1], walk) \o collect_all(fsys, Tail(paths), walk)

\* The container path of an input file.
output_path_for(file, output_dir) ==
    IF output_dir # None THEN join(output_dir[1], file_name_str(file) \o ".crat")
    ELSE with_extension(file, "crat")

\* What one turn of the loop did: the encryption's result, the deletion's
\* (None when none was attempted), the file system it leaves, and whether a
\* `?` left the handler.
Turn(enc, del, fsys, aborted) ==
    [enc |-> enc, del |-> del, fs |-> fsys, aborted |-> aborted]

\* The match on encrypt_result: o is the encryption's outcome.
delete_original(o, file, delete_originals, mode, dfault, rnd) ==
    IF ~IsOk(o.res) \/ ~delete_originals THEN Turn(o.res, None, o.fs, FALSE)
    ELSE Turn(o.res, Some(secure_delete(o.fs, file, mode, dfault, rnd).res),
              secure_delete(o.fs, file, mode, dfault, rnd).fs, FALSE)

\* r is encrypt_entry's answer; a failing should_use_streaming leaves through `?`.
encrypt_turn(r, fsys, file, output_path, fault, delete_originals, mode, dfault, rnd) ==
    IF r.route = "none" THEN Turn(r.o.res, None, fsys, TRUE)
    ELSE delete_original(with_fault(r.o, fsys, output_path, fault, r.route = "streaming"),
                         file, delete_originals, mode, dfault, rnd)

(***************************************************************************)
(* SpecBatch: one run of handle_encrypt                                     *)
(***************************************************************************)
MaxBatchArgs == 2

BatchInputs == <<"d/a.txt", "d/a.pdf", "d/a.crat", "e/a.txt">>

BatchPaths ==
    {BatchInputs[i] : i \in 1..Len(BatchInputs)}
    \cup {"e/a.crat", "out/a.txt.crat", "out/a.pdf.crat", "out/a.crat.crat", "tmp"}

\* The i-th input file holds the single byte 64 + i.
BatchFile(i) == File(Plain(<<64 + i>>), Some(1234567890))

\* Command lines: files and directories, up to MaxBatchArgs of them.
BatchArgs ==
    UNION {[1..n -> {"d", "e", "d/a.txt", "d/a.crat", "gone"}] : n \in 1..MaxBatchArgs}

\* Directory listings: the inputs in either order.
Walks == {BatchInputs, [i \in 1..Len(BatchInputs) |-> BatchInputs[Len(BatchInputs) + 1 - i]]}

\* The locals of a running handle_encrypt and, in log, what each turn of its
\* loop did.
Batch(all_files, compress_opt, output_dir, delete_originals, mode, before, res) ==
    [op |-> "handle_encrypt", all_files |-> all_files, idx |-> 1,
     compress |-> compress_opt, output_dir |-> output_dir,
     delete_originals |-> delete_originals, mode |-> mode, before |-> before,
     log |-> <<>>, res |-> res]

NoBatch == Batch(<<>>, FALSE, None, FALSE, "Quick", <<>>, None)

InitBatch ==
    /\ \E present \in SUBSET (1..Len(BatchInputs)) :
         fs = [q \in BatchPaths |->
                 IF \E i \in present : BatchInputs[i] = q
                 THEN BatchFile(CHOOSE i \in present : BatchInputs[i] = q)
                 ELSE NoFile]
    /\ origin = [q \in Paths |-> NoOrigin]
    /\ last = NoBatch
    /\ pc = "batch"
    /\ metaIdle

\* handle_encrypt up to its loop: the paths are checked, the files collected,
\* the deletion confirmed (proceed: --yes, or the user's answer).
EncryptBegin ==
    /\ pc = "batch"
    /\ \E paths \in BatchArgs, walk \in Walks, output_dir \in {None, Some("out")},
          delete_originals \in BOOLEAN, proceed \in BOOLEAN :
         LET all_files == collect_all(fs, paths, walk)
             b == Batch(all_files, FALSE, output_dir, delete_originals, "Quick", fs, None)
         IN
         IF \E i \in 1..Len(paths) : ~path_exists(fs, paths[i])
         THEN /\ last' = [b EXCEPT !.all_files = <<>>, !.res = Some(Err("PathNotFound"))]
              /\ pc' = "batch_done"
         ELSE IF all_files = <<>> \/ (delete_originals /\ ~proceed)
         THEN /\ last' = [b EXCEPT !.all_files = <<>>, !.res = Some(Ok("unit"))]
              /\ pc' = "batch_done"
         ELSE /\ last' = b
              /\ pc' = "encrypting"
    /\ UNCHANGED <<fs, origin, metaVars>>

\* One turn of the loop over all_files.
EncryptTurn ==
    /\ pc = "encrypting"
    /\ \E fault \in {NoFault, Fault("write", 0, 5)},
          dfault \in {NoFault, Fault("remove", 0, 0)} :
         LET file == last.all_files[last.idx]
             output_path == output_path_for(file, last.output_dir)
             t == encrypt_turn(
                      encrypt_entry(fs, file, output_path, "correct horse",
                                    last.compress, DefaultConfig,
                                    [i \in 1..SALT_LENGTH |-> 17],
                                    [i \in 1..NONCE_LENGTH |-> 42]),
                      fs, file, output_path, fault, last.delete_originals,
                      last.mode, dfault, 17)
             entry == [path |-> file, output_path |-> output_path,
                       enc |-> t.enc, del |-> t.del]
         IN
         /\ fs' = t.fs
         /\ last' = [last EXCEPT
                       !.idx = last.idx + 1,
                       !.log = Append(last.log, entry),
                       !.res = IF t.aborted THEN Some(t.enc)
                               ELSE IF last.idx = Len(last.all_files)
                               THEN Some(Ok("unit")) ELSE None]
         /\ pc' = IF t.aborted \/ last.idx = Len(last.all_files)
                  THEN "batch_done" ELSE "encrypting"
    /\ UNCHANGED <<origin, metaVars>>

NextBatch == EncryptBegin \/ EncryptTurn

SpecBatch == InitBatch /\ [][NextBatch]_vars

(***************************************************************************)
(* main.rs: handle_decrypt, one container of the batch per step             *)
(***************************************************************************)
\* The decryptor is chosen by the container's size; a failing fs::metadata
\* leaves through `?`.
decrypt_entry(fsys, path, temp_output, password, zstd_empty) ==
    IF ~is_file(fsys, path) THEN Routed("none", FALSE, Outcome(Err("Io"), fsys, 0, 0))
    ELSE IF Size(fsys[path].data) > STREAMING_THRESHOLD
    THEN Routed("streaming", FALSE, decrypt_file_streaming(fsys, path, temp_output, password))
    ELSE Routed("buffered", FALSE, decrypt_file(fsys, path, temp_output, password, zstd_empty))

temp_output_for(path, output_dir) ==
    IF output_dir # None THEN join(output_dir[1], "temp_decrypt")
    ELSE with_file_name(path, "temp_decrypt")

\* The file the operating system reaches through final_output.
final_output_for(path, output_dir, filename) ==
    IF output_dir # None THEN resolve(join(output_dir[1], to_string(filename)))
    ELSE resolve(with_file_name(path, to_string(filename)))

\* fs::rename: the destination is replaced; it fails when the destination's
\* directory does not exist (failing: or for any other reason).
rename(fsys, from, to, failing) ==
    IF failing \/ to \notin DOMAIN fsys THEN [res |-> Err("Io"), fs |-> fsys]
    ELSE IF from = to THEN [res |-> Ok("unit"), fs |-> fsys]
    ELSE [res |-> Ok("unit"), fs |-> [fsys EXCEPT ![to] = fsys[from], ![from] = NoFile]]

\* What one turn of the loop did: "success", "skipped", "error", or
\* "aborted" when a `?` left the handler.
Moved(outcome, final_output, fsys) ==
    [outcome |-> outcome, final_output |-> final_output, fs |-> fsys]

\* fs::rename has answered with rn.
renamed(rn, final_output, fsys) ==
    IF IsOk(rn.res) THEN Moved("success", final_output, rn.fs)
    ELSE Moved("error", final_output, fsys)

\* The Ok arm of the match on decrypt_result, o.res.val the metadata returned.
\* ask: neither --yes nor confirm_overwrite = false; answer: the user's reply.
move_to_final(o, temp_output, final_output, ask, answer, failing) ==
    IF is_file(o.fs, final_output) /\ ask /\ ~answer
    THEN Moved("skipped", final_output, remove_file(o.fs, temp_output))
    ELSE renamed(rename(o.fs, temp_output, final_output, failing), final_output, o.fs)

decrypt_turn(r, fsys, path, temp_output, output_dir, ask, answer, failing) ==
    IF r.route = "none" THEN Moved("aborted", "", fsys)
    ELSE IF IsOk(r.o.res)
    THEN move_to_final(r.o, temp_output,
                       final_output_for(path, output_dir, r.o.res.val.filename),
                       ask, answer, failing)
    ELSE Moved("error", "", remove_file(r.o.fs, temp_output))

(***************************************************************************)
(* SpecUnbatch: one run of handle_decrypt                                   *)
(***************************************************************************)
MaxUnbatchArgs == 2

\* File names a container's metadata block may hold.
MetaNames == {"a.txt", "../x", "/x"}

UnbatchContainers == {"d/a.crat", "d/b.crat"}

UnbatchPaths ==
    UnbatchContainers
    \cup {"d/temp_decrypt", "out/temp_decrypt", "d/a.txt", "out/a.txt", "x", "/x"}

\* A container for plaintext under password whose metadata names filename:
\* the bytes encrypt_file writes for a file of that name.
Container(filename, plaintext, password) ==
    LET metadata_bytes ==
            to_bytes(FileMetadata(to_utf8(filename), Size(plaintext),
                                  Some(1234567890), FALSE))
        salt == [i \in 1..SALT_LENGTH |-> 17]
        nonce_bytes == [i \in 1..NONCE_LENGTH |-> 42]
    IN Content(header_bytes(FileHeader(salt, nonce_bytes, Len(metadata_bytes)),
                            metadata_bytes),
               0, aead_encrypt(derive_key(password, salt).val, nonce_bytes, plaintext).val)

Unbatch(paths, output_dir, ask, password, before, res) ==
    [op |-> "handle_decrypt", paths |-> paths, idx |-> 1, output_dir |-> output_dir,
     ask |-> ask, password |-> password, before |-> before, log |-> <<>>, res |-> res]

InitUnbatch ==
    /\ \E na \in MetaNames, nb \in MetaNames \cup {"none"}, temp \in BOOLEAN, taken \in BOOLEAN :
         fs = [q \in UnbatchPaths |->
                 IF q = "d/a.crat"
                 THEN File(Container(na, Plain(<<65>>), "correct horse"), Some(1700000000))
                 ELSE IF q = "d/b.crat" /\ nb # "none"
                 THEN File(Container(nb, Plain(<<66>>), "correct horse"), Some(1700000000))
                 ELSE IF q \in {"d/temp_decrypt", "out/temp_decrypt"} /\ temp
                 THEN File(Plain(<<84>>), Some(1234567890))
                 ELSE IF q \in {"d/a.txt", "out/a.txt"} /\ taken
                 THEN File(Plain(<<79>>), Some(1234567890))
                 ELSE NoFile]
    /\ origin = [q \in Paths |-> NoOrigin]
    /\ last = Unbatch(<<>>, None, FALSE, "", fs, None)
    /\ pc = "unbatch"
    /\ metaIdle

\* handle_decrypt up to its loop.
DecryptBegin ==
    /\ pc = "unbatch"
    /\ \E paths \in UNION {[1..n -> UnbatchContainers \cup {"d"}] : n \in 1..MaxUnbatchArgs},
          output_dir \in {None, Some("out")}, ask \in BOOLEAN, password \in Passwords :
         IF \E i \in 1..Len(paths) : ~is_file(fs, paths[i])
         THEN /\ last' = Unbatch(<<>>, output_dir, ask, password, fs, Some(Err("NotAFile")))
              /\ pc' = "unbatch_done"
         ELSE /\ last' = Unbatch(paths, output_dir, ask, password, fs, None)
              /\ pc' = "decrypting"
    /\ UNCHANGED <<fs, origin, metaVars>>

\* The turn for path has ended as t says.
TurnDecrypted(t, path, temp_output) ==
    /\ fs' = t.fs
    /\ last' = [last EXCEPT
                  !.idx = last.idx + 1,
                  !.log = Append(last.log,
                                 [path |-> path, temp_output |-> temp_output,
                                  outcome |-> t.outcome,
                                  final_output |-> t.final_output]),
                  !.res = IF t.outcome = "aborted" THEN Some(Err("Io"))
                          ELSE IF last.idx = Len(last.paths)
                          THEN Some(Ok("unit")) ELSE None]
    /\ pc' = IF t.outcome = "aborted" \/ last.idx = Len(last.paths)
             THEN "unbatch_done" ELSE "decrypting"

\* One turn of the loop over paths.
DecryptTurn ==
    /\ pc = "decrypting"
    /\ \E answer \in BOOLEAN, failing \in BOOLEAN :
         TurnDecrypted(
             decrypt_turn(
                 decrypt_entry(fs, last.paths[last.idx],
                               temp_output_for(last.paths[last.idx], last.output_dir),
                               last.password, FALSE),
                 fs, last.paths[last.idx],
                 temp_output_for(last.paths[last.idx], last.output_dir),
                 last.output_dir, last.ask, answer, failing),
             last.paths[last.idx],
             temp_output_for(last.paths[last.idx], last.output_dir))
    /\ UNCHANGED <<origin, metaVars>>

NextUnbatch == DecryptBegin \/ DecryptTurn

SpecUnbatch == InitUnbatch /\ [][NextUnbatch]_vars

(***************************************************************************)
(* SpecEndToEnd: a file through handle_encrypt's turn, its container        *)
(* through handle_decrypt's                                                 *)
(***************************************************************************)
\* Plaintexts: short ones, and zeros and random bytes around the threshold.
EndToEndData ==
    {Plain(<<>>), Plain(<<65>>), RandomContent(3, 9)}
    \cup {Content(<<>>, STREAMING_THRESHOLD + k, NoBlob) : k \in {-1, 0, 1}}
    \cup {RandomContent(STREAMING_THRESHOLD + k, 9) : k \in {-50, -1, 0, 1}}

EndToEndCall(op, r, plain, password, compressed, container_size) ==
    [op |-> op, route |-> r.route, res |-> r.o.res, plain |-> plain,
     password |-> password, compressed |-> compressed,
     container_size |-> container_size]

InitEndToEnd ==
    /\ \E d \in EndToEndData :
         fs = [q \in Paths |-> IF q = "p" THEN File(d, Some(1234567890)) ELSE NoFile]
    /\ origin = [q \in Paths |-> NoOrigin]
    /\ last = EndToEndCall("none", Routed("none", FALSE, Outcome(Ok("unit"), fs, 0, 0)),
                           EmptyContent, "", FALSE, 0)
    /\ pc = "e2e"
    /\ metaIdle

EndToEndEncrypted(r, password) ==
    /\ fs' = r.o.fs
    /\ last' = EndToEndCall("handle_encrypt", r, fs["p"].data, password, r.compress,
                            Size(r.o.fs["c"].data))

EndToEndEncrypt ==
    /\ pc = "e2e"
    /\ \E w \in Passwords, z \in BOOLEAN, config \in Configs,
          salt \in RandomBytes(SALT_LENGTH), nonce \in RandomBytes(NONCE_LENGTH) :
         EndToEndEncrypted(encrypt_entry(fs, "p", "c", w, z, config, salt, nonce), w)
    /\ pc' = "e2e_encrypted"
    /\ UNCHANGED <<origin, metaVars>>

EndToEndDecrypted(r) ==
    /\ fs' = r.o.fs
    /\ last' = EndToEndCall("handle_decrypt", r, last.plain, last.password,
                            last.compressed, last.container_size)

EndToEndDecrypt ==
    /\ pc = "e2e_encrypted"
    /\ IsOk(last.res)
    /\ \E zstd_empty \in BOOLEAN :
         EndToEndDecrypted(decrypt_entry(fs, "c", "o", last.password, zstd_empty))
    /\ pc' = "e2e_decrypted"
    /\ UNCHANGED <<origin, metaVars>>

NextEndToEnd == EndToEndEncrypt \/ EndToEndDecrypt

SpecEndToEnd == InitEndToEnd /\ [][NextEndToEnd]_vars

(***************************************************************************)
(* Properties                                                              *)
(***************************************************************************)
DecryptOps == {"decrypt_file", "decrypt_file_streaming"}

\* The last call read a container exactly as an encryptor wrote it.
ReadPristine == last.origin.mode # "none" /\ ~last.origin.altered

\* The last call read a container that was altered after it was written.
ReadAltered == last.origin.mode # "none" /\ last.origin.altered

\* The last call used the decryptor that pairs with the encryptor used.
SamePath ==
    \/ last.origin.mode = "buffered" /\ last.op = "decrypt_file"
    \/ last.origin.mode = "streaming" /\ last.op = "decrypt_file_streaming"

CrossPath ==
    \/ last.origin.mode = "streaming" /\ last.op = "decrypt_file"
    \/ last.origin.mode = "buffered" /\ last.op = "decrypt_file_streaming"

Untouched == fs = last.before

\* C1 (round trip): decrypting, under the encryption password, a container
\* that encrypt_file (compress or not) wrote with decrypt_file, or one that
\* encrypt_file_streaming wrote with decrypt_file_streaming, succeeds and
\* writes an output equal to the non-empty plaintext that was encrypted.
C1_RoundTrip ==
    (/\ last.op \in DecryptOps
     /\ ReadPristine
     /\ SamePath
     /\ last.password = last.origin.password
     /\ Size(last.origin.plain) > 0)
    => /\ IsOk(last.res)
       /\ fs[last.out].data = last.origin.plain

\* C2 (interoperability): a container of encrypt_file_streaming is decoded to
\* the original plaintext by decrypt_file, and a container of encrypt_file
\* (compress or not) by decrypt_file_streaming.
C2_Interoperable ==
    (/\ last.op \in DecryptOps
     /\ ReadPristine
     /\ CrossPath
     /\ last.password = last.origin.password)
    => /\ IsOk(last.res)
       /\ fs[last.out].data = last.origin.plain

\* C3 (wrong secret fails closed): decrypting a container with a secret other
\* than the one it was encrypted under returns InvalidPassword, and the file
\* system, the output path included, is as it was before the call.
C3_WrongSecretFailsClosed ==
    (/\ last.op \in DecryptOps
     /\ ReadPristine
     /\ last.password # last.origin.password)
    => /\ IsErr(last.res, "InvalidPassword")
       /\ Untouched

C3_Witness ==
    /\ last.op = "decrypt_file"
    /\ ReadPristine
    /\ last.password # last.origin.password
    /\ IsErr(last.res, "InvalidPassword")
    /\ last.out # last.inp
    /\ fs[last.out].exists
    /\ Size(fs[last.out].data) > 0

\* C4 (tamper detection): decrypting, with the original secret, a container
\* of which a byte of the salt, the nonce, the metadata block or the
\* ciphertext was altered fails and writes nothing.
C4_TamperDetected ==
    (/\ last.op \in DecryptOps
     /\ ReadAltered
     /\ last.password = last.origin.password)
    => /\ ~IsOk(last.res)
       /\ Untouched

ReadOps == DecryptOps \cup {"inspect_file"}

\* The file the last call read, as it was when the call began.
InputData == last.before[last.inp].data

\* The file read holds at least four bytes and they are not "CRAT".
WrongMagic ==
    /\ last.before[last.inp].exists
    /\ Size(InputData) >= 4
    /\ Take(InputData, 4) # <<67, 82, 65, 84>>

MagicOk ==
    /\ last.before[last.inp].exists
    /\ Size(InputData) >= 4
    /\ Take(InputData, 4) = <<67, 82, 65, 84>>

\* The magic is right and the version byte is not 1.
WrongVersion == MagicOk /\ Size(InputData) >= 5 /\ Take(InputData, 5)[5] # 1

\* The magic is right and the algorithm id is not 1.
WrongAlgorithm == MagicOk /\ Size(InputData) >= 6 /\ Take(InputData, 6)[6] # 1

\* C5 (format validation): inspect_file, decrypt_file and
\* decrypt_file_streaming reject a file whose first four bytes are not "CRAT"
\* with InvalidFormat, having derived no key, and leave every file, the
\* output path included, as it was.
C5_MagicGate ==
    (last.op \in ReadOps /\ WrongMagic)
    => /\ IsErr(last.res, "InvalidFormat")
       /\ last.kdf = 0
       /\ Untouched

C5_Witness ==
    /\ last.op = "decrypt_file_streaming"
    /\ WrongMagic
    /\ IsErr(last.res, "InvalidFormat")
    /\ last.out # last.inp
    /\ fs[last.out].exists

\* C6 (version gate): decrypt_file, decrypt_file_streaming and inspect_file
\* reject a file with the right magic and a version byte other than 1 with
\* UnsupportedVersion carrying that byte, and write nothing.
C6_VersionGate ==
    (last.op \in ReadOps /\ WrongVersion)
    => /\ last.res = ErrVersion(Take(InputData, 5)[5])
       /\ Untouched

C6_Witness ==
    /\ last.op = "inspect_file"
    /\ WrongVersion
    /\ last.res = ErrVersion(255)

\* C7 (validation order): in decrypt_file and decrypt_file_streaming the error
\* for a header with a wrong magic, version or algorithm id is that of the
\* first wrong field in the order magic, version, algorithm id; derive_key is
\* not called, and nothing after the algorithm id is parsed.
C7_ValidationOrder ==
    (last.op \in DecryptOps /\ (WrongMagic \/ WrongVersion \/ WrongAlgorithm))
    => /\ last.res = (IF WrongMagic THEN Err("InvalidFormat")
                      ELSE IF WrongVersion THEN ErrVersion(Take(InputData, 5)[5])
                      ELSE Err("InvalidFormat"))
       /\ last.kdf = 0
       /\ last.consumed <= 6

C7_Witness ==
    /\ last.op = "decrypt_file"
    /\ WrongVersion
    /\ WrongAlgorithm
    /\ last.res = ErrVersion(2)
    /\ last.consumed = 5

\* C8 (metadata fidelity, as claimed): from_bytes(to_bytes(m)) succeeds and
\* equals m in all four fields, whatever the file name (at most 65535 bytes),
\* the size, the time (present or absent) and the flag.
C8_MetadataFidelity ==
    mPc = "round_trip" => mRes = Ok(mArg.meta)

\* C8 (metadata fidelity, amended): from_bytes(to_bytes(m)) succeeds and
\* equals m in all four fields, except that a time of Some(0) comes back
\* as None.
C8_FidelityUpToEpochZero ==
    mPc = "round_trip"
    => mRes = Ok([mArg.meta EXCEPT
                    !.modified_time = IF @ = Some(0) THEN None ELSE @])

C8_Witness ==
    /\ mPc = "round_trip"
    /\ Len(mArg.meta.filename) = U16_MAX
    /\ mArg.meta.modified_time = Some(0)
    /\ mArg.meta.is_compressed
    /\ IsOk(mRes)
    /\ mRes.val.modified_time = None

\* The block given to from_bytes is too short for its length prefix, or
\* shorter than 2 + L + 17 for the L its prefix announces.
TruncatedBlock ==
    \/ Len(mArg.bytes) < 2
    \/ Len(mArg.bytes) < 2 + from_le_bytes(Slice(mArg.bytes, 0, 2)) + 17

\* C9 (truncated metadata fails closed): from_bytes returns InvalidFormat for
\* every truncated block; it does not abort.
C9_TruncatedFailsClosed ==
    (mPc = "from_bytes" /\ TruncatedBlock) => IsErr(mRes, "InvalidFormat")

\* C10 (the flag reflects the decision): in a container that encrypt_file
\* wrote, is_compressed is true exactly when compress was requested and the
\* input was not empty, which is exactly when the payload is compressed.
C10_FlagReflectsDecision ==
    (last.op = "encrypt_file" /\ IsOk(last.res))
    => LET h == read_container(fs[last.out].data)
           payload == fs[last.out].data.tail.data
       IN /\ h.metadata.is_compressed = (last.compress /\ Size(InputData) # 0)
          /\ h.metadata.is_compressed = (payload.tail.t = "zstd")

\* C11 (secure delete removes the path): after secure_delete returns Ok, in
\* any mode, no file exists at the path, a zero-length file included, which
\* is unlinked with no overwrite pass.
C11_DeleteRemovesPath ==
    (pc = "deleted" /\ IsOk(last.res))
    => /\ ~fs[last.path].exists
       /\ (Size(last.before[last.path].data) = 0 => last.log = <<>>)

C11_Witness ==
    /\ pc = "deleted"
    /\ IsOk(last.res)
    /\ last.before[last.path].exists
    /\ Size(last.before[last.path].data) = 0
    /\ last.mode = "Paranoid"
    /\ ~fs[last.path].exists

\* The patterns of each mode, in the order of the passes.
ExpectedPatterns ==
    [Quick |-> <<Random>>,
     Standard |-> <<Random, Zeros, Random>>,
     Paranoid |-> <<Random, Ones, Random, Pattern(170), Pattern(85), Random, Random>>]

\* C12 (passes and patterns): a successful secure_delete of a non-empty file
\* made exactly 1, 3 or 7 passes for Quick, Standard, Paranoid, with the
\* patterns of the mode in order.
C12_PassesAndPatterns ==
    (/\ pc = "deleted"
     /\ IsOk(last.res)
     /\ Size(last.before[last.path].data) > 0)
    => /\ last.log = ExpectedPatterns[last.mode]
       /\ Len(last.log) = (CASE last.mode = "Quick" -> 1
                             [] last.mode = "Standard" -> 3
                             [] last.mode = "Paranoid" -> 7)

C12_Witness ==
    /\ pc = "deleted"
    /\ IsOk(last.res)
    /\ last.mode = "Paranoid"
    /\ Len(last.log) = 7
    /\ last.log[4] = Pattern(170)

\* C13 (a failing secure delete leaves the original in place): when
\* secure_delete of an existing file returns an error the file still exists;
\* when the stat or the open failed its content is unchanged; and a file
\* one of whose passes failed is not unlinked.
C13_FailureLeavesFile ==
    (pc = "deleted" /\ last.before[last.path].exists)
    => /\ ~IsOk(last.res) => fs[last.path].exists
       /\ (~IsOk(last.res) /\ last.fault.at \in {"stat", "open"}) => Untouched
       /\ (/\ last.fault.at \in {"seek", "write", "sync"}
           /\ last.fault.pass < Len(ExpectedPatterns[last.mode])
           /\ Size(last.before[last.path].data) > 0)
          => fs[last.path].exists

C13_Witness ==
    /\ pc = "deleted"
    /\ last.fault.at = "write"
    /\ last.fault.pass = 1
    /\ last.fault.written = 1
    /\ IsErr(last.res, "Io")
    /\ fs[last.path].exists
    /\ fs[last.path].data # last.before[last.path].data

FileOps ==
    {"encrypt_file", "encrypt_file_streaming", "decrypt_file",
     "decrypt_file_streaming"}

\* C14 (no partial output): when one of the four file operations returns an
\* error, an I/O error included, the output path either holds no file or
\* holds exactly what it held before the call.
C14_NoPartialOutput ==
    (last.op \in FileOps /\ ~IsOk(last.res))
    => \/ ~fs[last.out].exists
       \/ /\ last.before[last.out].exists
          /\ fs[last.out].data = last.before[last.out].data

\* The file read is the beginning of a container (right magic, version and
\* algorithm id as far as it goes) and ends before the end of the 54-byte
\* header.
EndsInHeader ==
    /\ MagicOk
    /\ Size(InputData) < 54
    /\ ~WrongVersion
    /\ ~WrongAlgorithm

\* The file read has a whole, valid header, and its metadata-length field
\* announces more bytes than the file has left.
EndsInMetadata ==
    /\ MagicOk
    /\ ~WrongVersion
    /\ ~WrongAlgorithm
    /\ Len(InputData.bytes) >= 54
    /\ 54 + from_le_bytes(Slice(InputData.bytes, 50, 4)) > Size(InputData)

\* C15 (damaged inputs): decrypt_file, decrypt_file_streaming and inspect_file
\* reject a file that ends inside the header, or inside the metadata block
\* its length field announces, with InvalidFormat and derive no key.
C15_TruncatedIsInvalidFormat ==
    (last.op \in ReadOps /\ (EndsInHeader \/ EndsInMetadata))
    => /\ IsErr(last.res, "InvalidFormat")
       /\ last.kdf = 0

\* C16 (inspection needs no secret): on a container an encryptor wrote,
\* inspect_file returns version 1, the name of the algorithm, the metadata a
\* decryptor returns under the right password, and the size of the whole
\* file; it derives no key, stops parsing where the ciphertext begins, and
\* changes no file.
C16_InspectNeedsNoSecret ==
    (last.op = "inspect_file" /\ ReadPristine)
    => LET d == decrypt_file_streaming(last.before, last.inp, "o",
                                       last.origin.password)
           b == decrypt_file(last.before, last.inp, "o", last.origin.password, TRUE)
       IN /\ IsOk(last.res)
          /\ last.res.val.version = 1
          /\ last.res.val.algorithm = "AES-256-GCM"
          /\ IsOk(d.res)
          /\ last.res.val.metadata = d.res.val
          /\ IsOk(b.res) => last.res.val.metadata = b.res.val
          /\ last.res.val.encrypted_size = Size(InputData)
          /\ last.kdf = 0
          /\ last.consumed + Size(Content(<<>>, 0, InputData.tail)) = Size(InputData)
          /\ Untouched

C16_Witness ==
    /\ last.op = "inspect_file"
    /\ ReadPristine
    /\ last.origin.mode = "buffered"
    /\ last.origin.compress
    /\ IsOk(last.res)
    /\ last.res.val.metadata.is_compressed
    /\ last.res.val.encrypted_size > 54

\* C18 (streaming threshold): should_use_streaming of an existing file is
\* true exactly when the file is larger than 104857600 bytes.
C18_StreamingThreshold ==
    (last.op = "should_use_streaming" /\ last.before[last.inp].exists)
    => last.res = Ok(Size(InputData) > 104857600)

C18_Witness ==
    /\ last.op = "should_use_streaming"
    /\ Size(InputData) = 104857600
    /\ last.res = Ok(FALSE)

\* C19 (large files are never compressed): for a file above 104857600 bytes
\* the batch encryptor calls encrypt_file_streaming whatever the compress
\* flag and compress_by_default are, and a container that
\* encrypt_file_streaming wrote has is_compressed = false and a payload that
\* is not compressed.
C19_LargeFilesUncompressed ==
    (last.op = "handle_encrypt" /\ last.before[last.inp].exists)
    => /\ Size(InputData) > 104857600 => last.route = "streaming"
       /\ (last.route = "streaming" /\ IsOk(last.res))
          => /\ ~read_container(fs[last.out].data).metadata.is_compressed
             /\ fs[last.out].data.tail.data.tail.t # "zstd"

C19_Witness ==
    /\ last.op = "handle_encrypt"
    /\ Size(InputData) = 104857601
    /\ last.compress
    /\ last.config.compress_by_default
    /\ last.route = "streaming"
    /\ IsOk(last.res)
    /\ last.out # last.inp

\* C20 (costs come from the configuration): the key derivation of a batch
\* encryption runs with the configuration's argon2_memory_kb,
\* argon2_time_cost and argon2_parallelism, and its compression at the
\* configuration's compression_level.
C20_ConfiguredCosts ==
    (last.op = "handle_encrypt" /\ IsOk(last.res))
    => /\ last.params = [m_cost |-> last.config.argon2_memory_kb,
                         t_cost |-> last.config.argon2_time_cost,
                         p_cost |-> last.config.argon2_parallelism]
       /\ last.compress_arg => last.level = last.config.compression_level

\* C21 (missing source): encrypt_file, encrypt_file_streaming, decrypt_file,
\* decrypt_file_streaming and inspect_file return FileNotFound when no file
\* exists at the source path.
C21_MissingSourceIsFileNotFound ==
    (last.op \in FileOps \cup {"inspect_file"} /\ ~last.before[last.inp].exists)
    => IsErr(last.res, "FileNotFound")

\* C22 (read_keyfile): an existing file of length zero or above 10 MiB is
\* rejected with InvalidFormat; any other existing file yields the 32-byte
\* SHA-256 digest of its whole content; two reads in a row of the same path
\* return the same result.
C22_ReadKeyfile ==
    (last.op = "read_keyfile" /\ last.before[last.path].exists) =>
        LET data == last.before[last.path].data IN
        /\ (Size(data) = 0 \/ Size(data) > 10485760) => IsErr(last.res, "InvalidFormat")
        /\ (Size(data) > 0 /\ Size(data) <= 10485760) =>
              /\ IsOk(last.res)
              /\ last.res.val.len = 32
              /\ last.res.val = Sha256(data)
        /\ (last.prev.op = "read_keyfile" /\ last.prev.path = last.path) =>
              last.res = last.prev.res

C22_Witness ==
    /\ last.op = "read_keyfile" /\ last.prev.op = "read_keyfile"
    /\ last.prev.path = last.path
    /\ IsOk(last.res)
    /\ Size(last.before[last.path].data) = 10485760

C22_WitnessEmpty ==
    /\ last.op = "read_keyfile" /\ last.before[last.path].exists
    /\ Size(last.before[last.path].data) = 0
    /\ IsErr(last.res, "InvalidFormat")

KeyfileSize == IF last.size = None THEN 4096 ELSE last.size[1]

\* C23 (generate_keyfile): a size above 10 MiB is refused with the file system
\* left as it was; a successful call leaves exactly the requested number of
\* bytes at the path, 4096 when no size is given.
C23_GenerateKeyfile ==
    (last.op = "generate_keyfile") =>
        /\ KeyfileSize > 10485760 => (last.res.tag = "Err" /\ fs = last.before)
        /\ IsOk(last.res) =>
              /\ fs[last.path].exists
              /\ Size(fs[last.path].data) = KeyfileSize
              /\ \A q \in Paths \ {last.path} : fs[q] = last.before[q]

C23_Witness ==
    /\ last.op = "generate_keyfile"
    /\ KeyfileSize > 10485760
    /\ last.before[last.path].exists
    /\ last.res.tag = "Err"

C23_WitnessDefault ==
    /\ last.op = "generate_keyfile" /\ last.size = None /\ IsOk(last.res)
    /\ Size(fs[last.path].data) = 4096

\* C30 (generate then read): a key file that generate_keyfile has just written
\* successfully is accepted by read_keyfile.
C30_GeneratedIsReadable ==
    (/\ last.op = "read_keyfile"
     /\ last.prev.op = "generate_keyfile"
     /\ last.prev.path = last.path
     /\ IsOk(last.prev.res))
    => IsOk(last.res)

Shredding == pc \in {"shred_seek", "shred_write", "shred_sync", "shred_drop", "shred_remove"}

\* C24 (order of secure_delete's steps on a non-empty file): no write is longer
\* than 64 KiB; a pass that has written everything started at offset 0 and
\* wrote exactly the original length; the file keeps its original length
\* throughout; a pass begins only when every earlier pass was synced; the path
\* is unlinked only after all passes were synced and the handle released.
C24_PassDiscipline ==
    /\ last.chunk <= 65536
    /\ pc = "shred_sync" => (last.first_offset = 0 /\ last.written = last.file_size)
    /\ Shredding => Size(fs[last.path].data) = last.file_size
    /\ pc \in {"shred_seek", "shred_write", "shred_sync"} => last.synced = last.pass
    /\ (last.removed /\ last.file_size > 0) =>
          (last.synced = passes(last.mode) /\ ~last.open)

C24_Witness ==
    /\ pc = "shred_done" /\ last.removed
    /\ last.file_size = 2 * 65536 + 1
    /\ last.mode = "Paranoid" /\ last.synced = 7
    /\ last.chunk = 1

Turns == {last.log[i] : i \in 1..Len(last.log)}

\* C25 (batch encryption with --delete): an original is handed to
\* secure_delete only when the encryption of that file returned Ok; a file
\* whose encryption failed holds what it held when the batch began; and the
\* batch ends only when every collected file has had its turn.
C25_DeleteAfterSuccess ==
    (last.op = "handle_encrypt") =>
        /\ \A e \in Turns : e.del # None => IsOk(e.enc)
        /\ \A e \in Turns : ~IsOk(e.enc) => fs[e.path] = last.before[e.path]
        /\ pc = "batch_done" => Len(last.log) = Len(last.all_files)

\* A container at q that the batch's password opens and that holds data.
DecryptsTo(q, data) ==
    LET o == decrypt_file(fs, q, "tmp", "correct horse", FALSE) IN
    IsOk(o.res) /\ o.fs["tmp"].data = data

Recoverable(path) ==
    \/ fs[path] = last.before[path]
    \/ \E q \in BatchPaths : DecryptsTo(q, last.before[path].data)

\* C26 (nothing is lost): when the batch has ended, every file whose
\* encryption was reported successful still exists unchanged or is held by a
\* container; distinct inputs have distinct container paths; no container
\* path is an input path.
C26_Recoverable ==
    (last.op = "handle_encrypt" /\ pc = "batch_done") =>
        /\ \A e \in Turns : IsOk(e.enc) => Recoverable(e.path)
        /\ \A e1 \in Turns, e2 \in Turns :
              e1.path # e2.path => e1.output_path # e2.output_path
        /\ \A e1 \in Turns, e2 \in Turns : e1.output_path # e2.path

\* The directory the outputs of the batch belong in.
ChosenDir == IF last.output_dir # None THEN last.output_dir[1] ELSE "d"

\* C28 (outputs stay in the chosen directory): a batch decryption changes no
\* file outside the output directory, or the container's directory when none
\* is given, whatever file name a container's metadata holds.
C28_OutputsStayInside ==
    (last.op = "handle_decrypt") =>
        \A q \in UnbatchPaths : fs[q] # last.before[q] => parent(q) = ChosenDir

\* C29 (temp_decrypt is left alone): a file named temp_decrypt that existed in
\* the output directory, or next to the container, when the batch began is
\* there with the same content whenever the batch has done a turn.
C29_TempDecryptUntouched ==
    (last.op = "handle_decrypt") =>
        \A q \in {"d/temp_decrypt", "out/temp_decrypt"} :
            last.before[q].exists => fs[q] = last.before[q]

\* C27 (end-to-end path selection): a file encrypted by the batch encryptor's
\* turn and decrypted, under the same password, by the batch decryptor's
\* turn comes back as it was.
C27_EndToEnd ==
    (pc = "e2e_decrypted") => (IsOk(last.res) /\ fs["o"].data = last.plain)

====
